---- MODULE Spec2Model ----
(***************************************************************************)
(* Bulkmass: the server-resident job queue (queue.js), its background      *)
(* worker (worker.js) and the browser-side queue engine (app.js).          *)
(*                                                                         *)
(* Granularity.  Node.js and the browser run one callback at a time, so    *)
(* an action is the code that runs between two suspension points (a timer  *)
(* firing, the generation call returning, the backoff sleep ending, an      *)
(* external call of an exported function).  An await on an already settled *)
(* promise is continued inside the same action.                            *)
(*                                                                         *)
(* Specifications.  Spec is the server under every call, timer and crash;  *)
(* SpecLong and SpecMock are the worker draining long and mock jobs;       *)
(* SpecFiles is the job store with its two files and every way a write can *)
(* go; SpecTimed is the job store with its two timers on a clock;          *)
(* SpecBackoff is the two backoff controllers; SpecClient is the browser   *)
(* and SpecClientLong the browser draining one long list; SpecRestore is   *)
(* the browser queue saved to localStorage and restored at a page load;    *)
(* SpecRate is the rate limiter of server.js under many requests and       *)
(* SpecProxy the generate endpoint of server.js with its calls in flight;  *)
(* SpecRetention is the job store over the days of the retention window;   *)
(* SpecPool is the worker's pool of Whisk instances under many cookies and *)
(* SpecRefresh one instance used again and again; SpecAnimate is the       *)
(* animate endpoint of server.js with its timeout.                         *)
(***************************************************************************)
EXTENDS Integers, Sequences, FiniteSets, TLC

\* ------------------------------------------------------------------ bounds
MaxJobs == 2
MaxPrompts == 2
MaxTotalPrompts == 3
LongPrompts == 6
MaxClientJobs == 3
LongClientJobs == 6
MaxSaved == 2
MaxRateTicks == 4
MaxDenied == 2
MaxBystander == 2
MaxRequests == 2
MaxDays == 8
MaxPoolCalls == 7
MaxRefreshCalls == 12
MaxAnimateTicks == 3
MaxLoops == 2
MaxClicks == 4
MaxAsyncs == 2
MaxChains == 2
MaxRareEvents == 1
MaxNow == 8
ClockStep == 8
MaxTicks == 33
MaxStreak == 12
MaxFlushes == 4
MaxBurst == 3

\* ------------------------------------------------------- program constants
MAX_CONCURRENT_JOBS == 5
AbortThreshold == 5
PauseThreshold == 5
RetentionDays == 7
DebounceMs == 2000
RATE_CAP == 20
RateWindowMs == 60000
AbortMs == 60000
AnimateMs == 150000
MAX_INSTANCES == 5
PROJECT_REFRESH_EVERY == 10
KeyChars == 32
AutosaveMs == 30000
BASE_DELAY == 4000
MAX_BACKOFF == 60000
CLIENT_BASE_DELAY == 5000
CLIENT_MAX_BACKOFF == 32000

NoTime == -1
NoValue == "null"
Cookies == {"MOCK", "c1"}

VARIABLES
    \* queue.js
    jobsCache, isDirty, saveTimer, disk,
    \* worker.js
    isRunning, isProcessing, broadcastFn, consecutiveErrors, passes, tickTimers,
    starting, recovered,
    \* environment and history
    now, nextId, rareEvents, emitted, eventLog, calls, createdWith, ended,
    \* app.js
    storeJobs, storeIsRunning, storeIsPaused, storeConsecutiveErrors,
    storeCompletedCount, storeFailedCount, storeTotalCount, storeCookieValid,
    btnStartDisabled, btnPauseDisabled, btnStopDisabled, loops, nextJobId, clicks, asyncs,
    retried,
    \* the snapshot files of queue.js in detail
    bak, diskTorn, bakTorn, flushed, faults, flushes,
    \* the timers of queue.js in detail
    clock, saveDue, autoDue, lastCallAt, dirtySince, burst,
    \* what the last step did to the primary file
    wrote, flushResult, called,
    \* the backoff delays last computed
    workerDelay, clientDelay,
    \* the browser's stores: localStorage 'bulkmass_queue', the ids of the
    \* images in IndexedDB, and the list the snapshot was taken from
    localStorage, imageDb, savedFrom,
    \* server.js: the module variable Whisk, the server listening, the Map
    \* rateLimits, the requests handed to the handler in the last window,
    \* the calls of the handler in flight, the answers sent, Date.now()
    Whisk, listening, rateLimits, passed, requests, responses, serverNow,
    \* worker.js: the Map whiskInstances in insertion order, Date.now(), the
    \* processPrompt in flight, the Whisk objects and projects made so far,
    \* and which job used which
    whiskInstances, poolNow, poolCall, nextInstance, nextProject, uses,
    \* server.js: the calls of POST /api/animate
    animations

qvars == <<jobsCache, isDirty, saveTimer, disk>>
wvars == <<isRunning, isProcessing, broadcastFn, consecutiveErrors, passes, tickTimers, starting, recovered>>
hvars == <<now, nextId, rareEvents, emitted, eventLog, calls, createdWith, ended>>
svars == <<qvars, wvars, hvars>>
cvars == <<storeJobs, storeIsRunning, storeIsPaused, storeConsecutiveErrors,
           storeCompletedCount, storeFailedCount, storeTotalCount, storeCookieValid,
           btnStartDisabled, btnPauseDisabled, btnStopDisabled, loops, nextJobId,
           clicks, asyncs, retried>>
fvars == <<bak, diskTorn, bakTorn, flushed, faults, flushes>>
tvars == <<clock, saveDue, autoDue, lastCallAt, dirtySince, burst>>
nvars == <<wrote, flushResult, called>>
bvars == <<workerDelay, clientDelay>>
yvars == <<localStorage, imageDb, savedFrom>>
pvars == <<Whisk, listening, rateLimits, passed, requests, responses, serverNow>>
ivars == <<whiskInstances, poolNow, poolCall, nextInstance, nextProject, uses>>
zvars == <<ivars, animations>>
xvars == <<fvars, tvars, nvars, bvars, yvars, pvars, zvars>>
vars == <<svars, cvars, xvars>>

\* =================================================================== queue.js

\* Object.assign(target, updates)
Merge(rec, upd) ==
    [f \in DOMAIN rec |-> IF f \in DOMAIN upd THEN upd[f] ELSE rec[f]]

\* the module state of queue.js as one value, so that calls can be chained
Store ==
    [jobsCache |-> jobsCache, isDirty |-> isDirty, saveTimer |-> saveTimer,
     disk |-> disk]

SetStore(s) ==
    /\ jobsCache' = s.jobsCache
    /\ isDirty' = s.isDirty
    /\ saveTimer' = s.saveTimer
    /\ disk' = s.disk

NoFile == [exists |-> FALSE, jobs |-> <<>>]

\* loadJobsFromDisk: the primary file when it exists, else []
LoadJobsFromDisk(d) ==
    IF d.exists THEN d.jobs ELSE <<>>

\* saveToDisk when every write succeeds: the primary file holds the cache
\* (the .bak file, partial writes and failing writes are in SaveToDiskFiles)
SaveToDisk(s) ==
    IF ~s.isDirty THEN s
    ELSE [s EXCEPT !.disk = [exists |-> TRUE, jobs |-> s.jobsCache],
                   !.isDirty = FALSE]

ScheduleSave(s) ==
    [s EXCEPT !.isDirty = TRUE, !.saveTimer = TRUE]

SaveNow(s) ==
    SaveToDisk([s EXCEPT !.isDirty = TRUE, !.saveTimer = FALSE])

\* jobs.findIndex(j => j.id === jobId), 0 when absent
JobIndex(jobs, jobId) ==
    IF \E i \in DOMAIN jobs : jobs[i].id = jobId
    THEN CHOOSE i \in DOMAIN jobs :
            /\ jobs[i].id = jobId
            /\ \A k \in DOMAIN jobs : jobs[k].id = jobId => i <= k
    ELSE 0

NewPrompt ==
    [status |-> "pending", imageUrl |-> NoValue, error |-> NoValue]

NewJob(id, cookie, n, t) ==
    [id |-> id, cookie |-> cookie, status |-> "pending",
     createdAt |-> t, startedAt |-> NoTime, completedAt |-> NoTime,
     prompts |-> [i \in 1..n |-> NewPrompt],
     progress |-> 0, completedCount |-> 0, failedCount |-> 0,
     totalCount |-> n]

CreateJob(s, id, cookie, n, t) ==
    SaveNow([s EXCEPT !.jobsCache = Append(@, NewJob(id, cookie, n, t))])

\* a slip that debounces every update
UpdateJobDebounced(s, jobId, updates) ==
    LET idx == JobIndex(s.jobsCache, jobId) IN
    IF idx = 0 THEN s
    ELSE ScheduleSave([s EXCEPT !.jobsCache[idx] = Merge(@, updates)])

UpdateJob(s, jobId, updates) ==
    LET idx == JobIndex(s.jobsCache, jobId) IN
    IF idx = 0 THEN s
    ELSE LET s1 == [s EXCEPT !.jobsCache[idx] = Merge(@, updates)] IN
         IF "status" \in DOMAIN updates THEN SaveNow(s1) ELSE ScheduleSave(s1)

CountStatus(prompts, st) ==
    Cardinality({i \in DOMAIN prompts : prompts[i].status = st})

\* Math.round(n / d * 100) for n >= 0, d > 0
RoundPercent(n, d) ==
    (200 * n + d) \div (2 * d)

\* a slip that keeps running counters instead of recounting
UpdatePromptCounting(s, jobId, promptId, updates) ==
    LET idx == JobIndex(s.jobsCache, jobId) IN
    IF idx = 0 THEN s
    ELSE LET job == s.jobsCache[idx] IN
         IF promptId \notin DOMAIN job.prompts THEN s
         ELSE LET ps == [job.prompts EXCEPT ![promptId] = Merge(@, updates)]
                  cc == job.completedCount + (IF ps[promptId].status = "completed" THEN 1 ELSE 0)
                  fc == job.failedCount + (IF ps[promptId].status = "error" THEN 1 ELSE 0)
              IN ScheduleSave([s EXCEPT !.jobsCache[idx] =
                    [job EXCEPT !.prompts = ps,
                                !.completedCount = cc,
                                !.failedCount = fc,
                                !.progress = RoundPercent(cc + fc, job.totalCount)]])

UpdatePrompt(s, jobId, promptId, updates) ==
    LET idx == JobIndex(s.jobsCache, jobId) IN
    IF idx = 0 THEN s
    ELSE LET job == s.jobsCache[idx] IN
         IF promptId \notin DOMAIN job.prompts THEN s
         ELSE LET ps == [job.prompts EXCEPT ![promptId] = Merge(@, updates)]
                  cc == CountStatus(ps, "completed")
                  fc == CountStatus(ps, "error")
              IN ScheduleSave([s EXCEPT !.jobsCache[idx] =
                    [job EXCEPT !.prompts = ps,
                                !.completedCount = cc,
                                !.failedCount = fc,
                                !.progress = RoundPercent(cc + fc, job.totalCount)]])

CancelJobOp(s, jobId, t) ==
    UpdateJob(s, jobId, [status |-> "cancelled", completedAt |-> t])

\* index of the first pending job, 0 when none
GetNextPendingJob(jobs) ==
    IF \E i \in DOMAIN jobs : jobs[i].status = "pending"
    THEN CHOOSE i \in DOMAIN jobs :
            /\ jobs[i].status = "pending"
            /\ \A k \in DOMAIN jobs : jobs[k].status = "pending" => i <= k
    ELSE 0

\* a slip that takes the first prompt not yet completed instead of the first
\* pending one
GetNextUnfinishedPrompt(jobs, jobId) ==
    LET idx == JobIndex(jobs, jobId) IN
    IF idx = 0 THEN 0
    ELSE LET ps == jobs[idx].prompts IN
         IF \E i \in DOMAIN ps : ps[i].status # "completed"
         THEN CHOOSE i \in DOMAIN ps :
                 /\ ps[i].status # "completed"
                 /\ \A k \in DOMAIN ps : ps[k].status # "completed" => i <= k
         ELSE 0

\* index of the first pending prompt of the job, 0 when none or no such job
GetNextPendingPrompt(jobs, jobId) ==
    LET idx == JobIndex(jobs, jobId) IN
    IF idx = 0 THEN 0
    ELSE LET ps == jobs[idx].prompts IN
         IF \E i \in DOMAIN ps : ps[i].status = "pending"
         THEN CHOOSE i \in DOMAIN ps :
                 /\ ps[i].status = "pending"
                 /\ \A k \in DOMAIN ps : ps[k].status = "pending" => i <= k
         ELSE 0

GetActiveCount(jobs) ==
    Cardinality({i \in DOMAIN jobs : jobs[i].status = "processing"})

CanStartNew(jobs) ==
    GetActiveCount(jobs) < MAX_CONCURRENT_JOBS

\* a slip that goes by the creation timestamp alone
KeepJobByCreation(j, t) ==
    IF j.status # "completed" /\ j.status # "failed" THEN TRUE
    ELSE j.createdAt > t - RetentionDays

\* the filter of cleanupOldJobs: TRUE when the job is kept
KeepJob(j, t) ==
    IF j.status # "completed" /\ j.status # "failed" THEN TRUE
    ELSE LET date == IF j.completedAt # NoTime THEN j.completedAt ELSE j.createdAt
         IN date > t - RetentionDays

CleanupOldJobs(s, t) ==
    LET K(j) == KeepJob(j, t)
        kept == SelectSeq(s.jobsCache, K)
    IN IF Len(s.jobsCache) - Len(kept) > 0
       THEN SaveNow([s EXCEPT !.jobsCache = kept])
       ELSE [s EXCEPT !.jobsCache = kept]

TotalPrompts(jobs) ==
    Cardinality(UNION {{<<i, k>> : k \in DOMAIN jobs[i].prompts} : i \in DOMAIN jobs})

\* ================================================================== worker.js

\* What one callback of the worker reads and writes: the store, the failure
\* streak, the events its callback took (ev), the events it handed to the
\* callback (sent) and the generation calls made so far; threw tells whether
\* the last call threw.
World ==
    [s |-> Store, ce |-> consecutiveErrors, ev |-> <<>>, sent |-> <<>>,
     calls |-> calls, threw |-> FALSE]

SetWorld(w) ==
    /\ SetStore(w.s)
    /\ consecutiveErrors' = w.ce
    /\ emitted' = w.ev
    /\ eventLog' = eventLog \o w.sent
    /\ calls' = w.calls

\* The callbacks start() is given as "broadcast": a callback is the set of
\* event types on which it throws; {} is the default, which never throws.
BroadcastFns ==
    {{}, {"job-started"}, {"prompt-processing"}, {"prompt-completed"},
     {"prompt-error"}, {"job-completed"}}

\* broadcastFn(e) with broadcastFn = thr
Broadcast(w, e, thr) ==
    IF e[1] \in thr
    THEN [w EXCEPT !.threw = TRUE, !.sent = Append(@, e)]
    ELSE [w EXCEPT !.threw = FALSE, !.ev = Append(@, e), !.sent = Append(@, e)]

\* processPrompt, catch block: the streak grows, the prompt is marked error
ProcessPromptFailed(w, jobId, promptId, thr) ==
    Broadcast([w EXCEPT !.ce = @ + 1,
                        !.s = UpdatePrompt(w.s, jobId, promptId,
                                  [status |-> "error", error |-> "err"])],
              <<"prompt-error", jobId, promptId>>, thr)

\* processPrompt from the moment the generation call settles; threw is TRUE
\* in the result when an exception leaves processPrompt
ProcessPromptSettled(w, jobId, promptId, ok, thr) ==
    IF ok
    THEN LET w1 == Broadcast([w EXCEPT !.s = UpdatePrompt(w.s, jobId, promptId,
                                  [status |-> "completed", imageUrl |-> "img"])],
                             <<"prompt-completed", jobId, promptId>>, thr)
         IN IF w1.threw THEN ProcessPromptFailed(w1, jobId, promptId, thr)
            ELSE [w1 EXCEPT !.ce = 0]
    ELSE ProcessPromptFailed(w, jobId, promptId, thr)

\* processJob, "Finalize job"
Finalize(w, jobId, thr) ==
    LET idx == JobIndex(w.s.jobsCache, jobId) IN
    IF idx # 0 /\ w.s.jobsCache[idx].status = "processing"
    THEN Broadcast([w EXCEPT !.s = UpdateJob(w.s, jobId,
                        [status |-> "completed", completedAt |-> now])],
                   <<"job-completed", jobId, 0>>, thr)
    ELSE [w EXCEPT !.threw = FALSE]

\* how a piece of processJob ends: pc is "gen" (awaiting the generation call
\* of prompt), "end" (processJob returned) or "throw" (processJob threw)
AfterLoop(w, jobId, thr) ==
    LET f == Finalize(w, jobId, thr) IN
    [w |-> f, pc |-> IF f.threw THEN "throw" ELSE "end", prompt |-> 0]

\* the streak test of the drain loop
StreakExceeded(ce) ==
    ce >= AbortThreshold

\* a slip that only tests whether the job still exists
JobMissing(jobs, idx) ==
    idx = 0

\* the test at the head of the drain loop: the job is gone or cancelled
JobGone(jobs, idx) ==
    idx = 0 \/ jobs[idx].status = "cancelled"

\* processJob from the head of its while loop to the next suspension
LoopHead(w, jobId, thr) ==
    LET jobs == w.s.jobsCache
        idx == JobIndex(jobs, jobId)
        p == GetNextPendingPrompt(jobs, jobId)
    IN IF p = 0 THEN AfterLoop(w, jobId, thr)
       ELSE IF JobGone(jobs, idx)
       THEN [w |-> [w EXCEPT !.threw = FALSE], pc |-> "end", prompt |-> 0]
       ELSE IF StreakExceeded(w.ce)
       THEN LET w1 == Broadcast([w EXCEPT !.s = UpdateJob(w.s, jobId,
                                     [status |-> "failed", completedAt |-> now])],
                                <<"job-completed", jobId, 0>>, thr)
            IN IF w1.threw THEN AfterLoop(w1, jobId, thr)
               ELSE [w |-> w1, pc |-> "end", prompt |-> 0]
       ELSE LET w1 == Broadcast([w EXCEPT !.s = UpdatePrompt(w.s, jobId, p,
                                     [status |-> "processing"])],
                                <<"prompt-processing", jobId, p>>, thr)
            IN IF w1.threw THEN AfterLoop(w1, jobId, thr)
               ELSE [w |-> [w1 EXCEPT !.calls = Append(@, <<jobId, p>>)],
                     pc |-> "gen", prompt |-> p]

\* processJob from its entry to the first suspension
ProcessJob(w, jobId, thr) ==
    LET w1 == Broadcast([w EXCEPT !.s = UpdateJob(w.s, jobId,
                            [status |-> "processing", startedAt |-> now])],
                        <<"job-started", jobId, 0>>, thr)
    IN IF w1.threw THEN [w |-> w1, pc |-> "throw", prompt |-> 0]
       ELSE LoopHead(w1, jobId, thr)

\* a slip that never looks at the lock
LockIgnored ==
    TRUE

\* the reentrancy lock of workerLoop
LockFree ==
    ~isProcessing

RemoveAt(seq, k) ==
    SubSeq(seq, 1, k - 1) \o SubSeq(seq, k + 1, Len(seq))

\* workerLoop after processJob: the random cleanup (skipped when processJob
\* threw), the finally block, and the next tick
EndPass(w, pc, timers, doCleanup) ==
    /\ SetWorld([w EXCEPT !.s = IF pc = "end" /\ doCleanup
                                THEN CleanupOldJobs(w.s, now) ELSE w.s])
    /\ isProcessing' = FALSE
    /\ tickTimers' = IF isRunning THEN timers + 1 ELSE timers

\* one invocation of workerLoop up to its first suspension; timers is the
\* number of ticks that stay scheduled when it is entered
WorkerLoop(timers, thr, doCleanup) ==
    IF ~isRunning
    THEN /\ tickTimers' = timers
         /\ UNCHANGED <<qvars, isProcessing, consecutiveErrors, passes, calls>>
         /\ emitted' = <<>>
         /\ UNCHANGED eventLog
    ELSE IF ~LockFree
    THEN /\ tickTimers' = timers + 1
         /\ UNCHANGED <<qvars, isProcessing, consecutiveErrors, passes, calls>>
         /\ emitted' = <<>>
         /\ UNCHANGED eventLog
    ELSE LET k == IF CanStartNew(jobsCache) THEN GetNextPendingJob(jobsCache) ELSE 0 IN
         IF k = 0
         THEN /\ EndPass(World, "end", timers, doCleanup)
              /\ passes' = passes
         ELSE LET job == jobsCache[k]
                  res == ProcessJob(World, job.id, thr)
              IN IF res.pc = "gen"
                 THEN /\ SetWorld(res.w)
                      /\ isProcessing' = TRUE
                      /\ tickTimers' = timers
                      /\ passes' = Append(passes, [job |-> job.id, cookie |-> job.cookie,
                                                   prompt |-> res.prompt, pc |-> "gen"])
                 ELSE /\ EndPass(res.w, res.pc, timers, doCleanup)
                      /\ passes' = passes

\* a slip that resets the jobs and forgets their prompts
RecoverJobOnly(j) ==
    [j EXCEPT !.status = IF j.status = "processing" THEN "pending" ELSE j.status,
              !.startedAt = IF j.status = "processing" THEN NoTime ELSE j.startedAt]

\* recoverInterruptedJobs, the body of its loop over the jobs
RecoverJob(j) ==
    [j EXCEPT !.status = IF j.status = "processing" THEN "pending" ELSE j.status,
              !.startedAt = IF j.status = "processing" THEN NoTime ELSE j.startedAt,
              !.prompts = [i \in DOMAIN j.prompts |->
                              IF j.prompts[i].status = "processing"
                              THEN [j.prompts[i] EXCEPT !.status = "pending"]
                              ELSE j.prompts[i]]]

\* the local counter "recovered" of recoverInterruptedJobs
RecoveredCount(jobs) ==
    Cardinality({i \in DOMAIN jobs : jobs[i].status = "processing"})
    + Cardinality(UNION {{<<i, k>> : k \in {x \in DOMAIN jobs[i].prompts :
                                jobs[i].prompts[x].status = "processing"}} :
                         i \in DOMAIN jobs})

RecoverInterruptedJobs(s) ==
    IF RecoveredCount(s.jobsCache) > 0
    THEN SaveNow([s EXCEPT !.jobsCache = [i \in DOMAIN s.jobsCache |-> RecoverJob(s.jobsCache[i])]])
    ELSE s

\* ===================================================================== app.js

\* the fields of store the queue engine uses, and the three queue buttons, as
\* one value, so that calls can be chained
Client ==
    [jobs |-> storeJobs, isRunning |-> storeIsRunning, isPaused |-> storeIsPaused,
     consecutiveErrors |-> storeConsecutiveErrors,
     completedCount |-> storeCompletedCount, failedCount |-> storeFailedCount,
     totalCount |-> storeTotalCount, cookieValid |-> storeCookieValid,
     btnStart |-> btnStartDisabled, btnPause |-> btnPauseDisabled,
     btnStop |-> btnStopDisabled]

SetClient(c) ==
    /\ storeJobs' = c.jobs
    /\ storeIsRunning' = c.isRunning
    /\ storeIsPaused' = c.isPaused
    /\ storeConsecutiveErrors' = c.consecutiveErrors
    /\ storeCompletedCount' = c.completedCount
    /\ storeFailedCount' = c.failedCount
    /\ storeTotalCount' = c.totalCount
    /\ storeCookieValid' = c.cookieValid
    /\ btnStartDisabled' = c.btnStart
    /\ btnPauseDisabled' = c.btnPause
    /\ btnStopDisabled' = c.btnStop

\* buildJobList: n fresh pending jobs with the ids first .. first + n - 1
BuildJobList(first, n) ==
    [i \in 1..n |-> [id |-> first + i - 1, status |-> "pending", error |-> NoValue]]

\* resetControls (the prompt box is taken to hold at least one prompt)
ResetControls(c) ==
    [c EXCEPT !.btnStart = ~c.cookieValid, !.btnPause = TRUE, !.btnStop = TRUE]

\* updateStatus(connected) with updateStartButton
UpdateStatus(c, connected) ==
    [c EXCEPT !.cookieValid = connected,
              !.btnStart = ~connected \/ c.isRunning]

\* a find that returns the last pending item instead of the first
LastPending(jobs) ==
    IF \E i \in DOMAIN jobs : jobs[i].status = "pending"
    THEN CHOOSE i \in DOMAIN jobs :
            /\ jobs[i].status = "pending"
            /\ \A k \in DOMAIN jobs : jobs[k].status = "pending" => k <= i
    ELSE 0

\* store.jobs.find(j => j.status === 'pending'), as an index, 0 when none
FirstPending(jobs) ==
    IF \E i \in DOMAIN jobs : jobs[i].status = "pending"
    THEN CHOOSE i \in DOMAIN jobs :
            /\ jobs[i].status = "pending"
            /\ \A k \in DOMAIN jobs : jobs[k].status = "pending" => i <= k
    ELSE 0

\* an assignment to fields of the job object with this id; an object that is
\* no longer in store.jobs is changed without store.jobs seeing it
SetJob(jobs, id, updates) ==
    [i \in DOMAIN jobs |-> IF jobs[i].id = id THEN Merge(jobs[i], updates) ELSE jobs[i]]

\* processQueue from its entry to its first suspension: job is the id of the
\* job whose request it sends, 0 when it returns without sending one
ProcessQueue(c) ==
    IF ~c.isRunning \/ c.isPaused THEN [c |-> c, job |-> 0]
    ELSE LET k == FirstPending(c.jobs) IN
         IF k = 0
         THEN [c |-> ResetControls([c EXCEPT !.isRunning = FALSE]), job |-> 0]
         ELSE IF c.consecutiveErrors >= PauseThreshold
         THEN [c |-> [c EXCEPT !.isPaused = TRUE], job |-> 0]
         ELSE [c |-> [c EXCEPT !.jobs[k].status = "processing"],
               job |-> c.jobs[k].id]

\* the drain loops after a call of processQueue
Spawn(ls, res) ==
    IF res.job = 0 THEN ls ELSE Append(ls, [job |-> res.job, pc |-> "fetch"])

\* processQueue, the else branch and the catch block: the request failed
RequestFailed(c, id) ==
    [c EXCEPT !.jobs = SetJob(c.jobs, id, [status |-> "error", error |-> "err"]),
              !.failedCount = @ + 1,
              !.consecutiveErrors = @ + 1]

\* ==================================================================== actions

\* ------------------------------------------------ worker.js, the pool
\* no processPrompt in flight
NoCall == [pc |-> "idle", cookie |-> <<>>, inst |-> 0, project |-> 0]

\* ------------------------------------------------ server.js, its state
\* the caller identities req.ip, and a key the Map rateLimits does not hold
IPs == {"ip1", "ip2"}
NoRecord == [count |-> 0, resetAt |-> NoTime]
\* the server's clock moves in steps of half the rate window
RateTick == RateWindowMs \div 2
RateTimes == {k * RateTick : k \in 0..MaxRateTicks}

Init ==
    /\ jobsCache = <<>>
    /\ isDirty = FALSE
    /\ saveTimer = FALSE
    /\ disk = NoFile
    /\ isRunning = FALSE
    /\ isProcessing = FALSE
    /\ broadcastFn = {}
    /\ consecutiveErrors = 0
    /\ passes = <<>>
    /\ tickTimers = 0
    /\ starting = FALSE
    /\ recovered = 0
    /\ now = 0
    /\ nextId = 1
    /\ rareEvents = 0
    /\ emitted = <<>>
    /\ eventLog = <<>>
    /\ calls = <<>>
    /\ createdWith = <<>>
    /\ ended = {}
    /\ storeJobs = <<>>
    /\ storeIsRunning = FALSE
    /\ storeIsPaused = FALSE
    /\ storeConsecutiveErrors = 0
    /\ storeCompletedCount = 0
    /\ storeFailedCount = 0
    /\ storeTotalCount = 0
    /\ storeCookieValid = FALSE
    /\ btnStartDisabled = TRUE
    /\ btnPauseDisabled = TRUE
    /\ btnStopDisabled = TRUE
    /\ loops = <<>>
    /\ nextJobId = 1
    /\ clicks = 0
    /\ asyncs = <<>>
    /\ retried = {}
    /\ bak = NoFile
    /\ diskTorn = FALSE
    /\ bakTorn = FALSE
    /\ flushed = <<>>
    /\ faults = {}
    /\ flushes = 0
    /\ clock = 0
    /\ saveDue = NoTime
    /\ autoDue = AutosaveMs
    /\ lastCallAt = NoTime
    /\ dirtySince = NoTime
    /\ wrote = "none"
    /\ flushResult = "none"
    /\ called = "none"
    /\ burst = 0
    /\ workerDelay = 0
    /\ clientDelay = 0
    /\ localStorage = <<>>
    /\ imageDb = {}
    /\ savedFrom = <<>>
    /\ Whisk = "null"
    /\ listening = FALSE
    /\ rateLimits = [ip \in IPs |-> NoRecord]
    /\ passed = [ip \in IPs |-> [t \in RateTimes |-> 0]]
    /\ requests = <<>>
    /\ responses = {}
    /\ serverNow = 0
    /\ whiskInstances = <<>>
    /\ poolNow = 0
    /\ poolCall = NoCall
    /\ nextInstance = 1
    /\ nextProject = 1
    /\ uses = {}
    /\ animations = <<>>

\* POST of a new batch: queue.createJob
DoCreateJob(cookie, n) ==
    /\ ~starting
    /\ nextId <= MaxJobs
    /\ SetStore(CreateJob(Store, nextId, cookie, n, now))
    /\ nextId' = nextId + 1
    /\ createdWith' = Append(createdWith, n)
    /\ UNCHANGED <<wvars, now, rareEvents, calls, ended, cvars, xvars>>
    /\ emitted' = <<>>
    /\ UNCHANGED eventLog

\* queue.cancelJob, for any id handed out so far
DoCancelJob(jobId) ==
    /\ ~starting
    /\ SetStore(CancelJobOp(Store, jobId, now))
    /\ UNCHANGED <<wvars, now, nextId, rareEvents, calls, createdWith, ended, cvars, xvars>>
    /\ emitted' = <<>>
    /\ UNCHANGED eventLog

\* worker.start up to and including recoverInterruptedJobs()
Start(broadcast) ==
    /\ ~starting
    /\ ~isRunning
    /\ tickTimers + Len(passes) < MaxChains
    /\ rareEvents' = IF broadcast = {} THEN rareEvents ELSE rareEvents + 1
    /\ rareEvents' <= MaxRareEvents
    /\ broadcastFn' = broadcast
    /\ isRunning' = TRUE
    /\ consecutiveErrors' = 0
    /\ recovered' = RecoveredCount(jobsCache)
    /\ SetStore(RecoverInterruptedJobs(Store))
    /\ starting' = TRUE
    /\ UNCHANGED <<isProcessing, passes, tickTimers, now, nextId, calls, createdWith, ended, cvars, xvars>>
    /\ emitted' = <<>>
    /\ UNCHANGED eventLog

\* worker.start, its last statement: workerLoop()
StartLoop(doCleanup) ==
    /\ starting
    /\ starting' = FALSE
    /\ recovered' = 0
    /\ WorkerLoop(tickTimers, broadcastFn, doCleanup)
    /\ UNCHANGED <<isRunning, broadcastFn, now, nextId, rareEvents, createdWith, ended, cvars, xvars>>

Stop ==
    /\ ~starting
    /\ isRunning
    /\ rareEvents < MaxRareEvents
    /\ rareEvents' = rareEvents + 1
    /\ isRunning' = FALSE
    /\ UNCHANGED <<qvars, isProcessing, broadcastFn, consecutiveErrors, passes,
                   tickTimers, starting, recovered, now, nextId, calls, createdWith, ended, cvars, xvars>>
    /\ emitted' = <<>>
    /\ UNCHANGED eventLog

\* a setTimeout(workerLoop, 3000) fires
Tick(doCleanup) ==
    /\ ~starting
    /\ tickTimers > 0
    /\ WorkerLoop(tickTimers - 1, broadcastFn, doCleanup)
    /\ UNCHANGED <<isRunning, broadcastFn, starting, recovered, now, nextId, rareEvents,
                   createdWith, ended, cvars, xvars>>

\* the prompt is stored as completed or error
HasEnded(jobs, jobId, promptId) ==
    LET idx == JobIndex(jobs, jobId) IN
    /\ idx # 0
    /\ promptId \in DOMAIN jobs[idx].prompts
    /\ jobs[idx].prompts[promptId].status \in {"completed", "error"}

\* the generation call of pass k settles (ok: an image, ~ok: an error)
GenDone(k, ok, doCleanup) ==
    /\ ~starting
    /\ k \in DOMAIN passes
    /\ passes[k].pc = "gen"
    /\ ok \/ passes[k].cookie # "MOCK"
    /\ LET p == passes[k]
           thr == broadcastFn
           w1 == ProcessPromptSettled(World, p.job, p.prompt, ok, thr)
       IN IF w1.threw
          THEN LET res == AfterLoop(w1, p.job, thr) IN
               /\ EndPass(res.w, res.pc, tickTimers, doCleanup)
               /\ passes' = RemoveAt(passes, k)
          ELSE /\ SetWorld(w1)
               /\ passes' = [passes EXCEPT ![k].pc = "sleep"]
               /\ UNCHANGED <<isProcessing, tickTimers>>
    /\ ended' = IF HasEnded(jobsCache', passes[k].job, passes[k].prompt)
                THEN ended \cup {<<passes[k].job, passes[k].prompt>>}
                ELSE ended
    /\ UNCHANGED <<isRunning, broadcastFn, starting, recovered, now, nextId, rareEvents,
                   createdWith, cvars, xvars>>

\* the backoff sleep of pass k ends
SleepDone(k, doCleanup) ==
    /\ ~starting
    /\ k \in DOMAIN passes
    /\ passes[k].pc = "sleep"
    /\ LET p == passes[k]
           thr == broadcastFn
           res == LoopHead(World, p.job, thr)
       IN IF res.pc = "gen"
          THEN /\ SetWorld(res.w)
               /\ passes' = [passes EXCEPT ![k] = [p EXCEPT !.prompt = res.prompt, !.pc = "gen"]]
               /\ UNCHANGED <<isProcessing, tickTimers>>
          ELSE /\ EndPass(res.w, res.pc, tickTimers, doCleanup)
               /\ passes' = RemoveAt(passes, k)
    /\ UNCHANGED <<isRunning, broadcastFn, starting, recovered, now, nextId, rareEvents,
                   createdWith, ended, cvars, xvars>>

\* the debounce timer of scheduleSave fires
SaveTimerFires ==
    /\ ~starting
    /\ saveTimer
    /\ SetStore(SaveToDisk([Store EXCEPT !.saveTimer = FALSE]))
    /\ UNCHANGED <<wvars, now, nextId, rareEvents, calls, createdWith, ended, cvars, xvars>>
    /\ emitted' = <<>>
    /\ UNCHANGED eventLog

\* the 30 second setInterval: if (isDirty) saveToDisk()
AutoSave ==
    /\ ~starting
    /\ isDirty
    /\ SetStore(SaveToDisk(Store))
    /\ UNCHANGED <<wvars, now, nextId, rareEvents, calls, createdWith, ended, cvars, xvars>>
    /\ emitted' = <<>>
    /\ UNCHANGED eventLog

\* wall-clock time passes
Advance ==
    /\ ~starting
    /\ now + ClockStep <= MaxNow
    /\ rareEvents < MaxRareEvents
    /\ rareEvents' = rareEvents + 1
    /\ now' = now + ClockStep
    /\ UNCHANGED <<qvars, wvars, nextId, calls, createdWith, ended, cvars, xvars>>
    /\ emitted' = <<>>
    /\ UNCHANGED eventLog

\* the process dies and is started again: memory is lost, the files stay
Crash ==
    /\ ~starting
    /\ rareEvents < MaxRareEvents
    /\ rareEvents' = rareEvents + 1
    /\ jobsCache' = LoadJobsFromDisk(disk)
    /\ isDirty' = FALSE
    /\ saveTimer' = FALSE
    /\ isRunning' = FALSE
    /\ isProcessing' = FALSE
    /\ broadcastFn' = {}
    /\ consecutiveErrors' = 0
    /\ passes' = <<>>
    /\ tickTimers' = 0
    /\ emitted' = <<>>
    /\ eventLog' = <<>>
    /\ calls' = <<>>
    /\ UNCHANGED <<disk, starting, recovered, now, nextId, createdWith, ended, cvars, xvars>>

\* ------------------------------------------------------------ app.js actions

\* the cookie is validated: updateStatus(true, email)
ValidateCookie ==
    /\ ~storeCookieValid
    /\ SetClient(UpdateStatus(Client, TRUE))
    /\ UNCHANGED <<loops, nextJobId, clicks, asyncs, retried, svars, xvars>>

\* click on Start: startGeneration with n jobs built from the prompt box
StartGeneration(n) ==
    /\ ~btnStartDisabled
    /\ storeCookieValid
    /\ Len(loops) < MaxLoops
    /\ LET c == [Client EXCEPT !.jobs = BuildJobList(nextJobId, n),
                               !.totalCount = n,
                               !.completedCount = 0,
                               !.failedCount = 0,
                               !.consecutiveErrors = 0,
                               !.isRunning = TRUE,
                               !.isPaused = FALSE,
                               !.btnStart = TRUE,
                               !.btnPause = FALSE,
                               !.btnStop = FALSE]
           res == ProcessQueue(c)
       IN /\ SetClient(res.c)
          /\ loops' = Spawn(loops, res)
    /\ nextJobId' = nextJobId + n
    /\ clicks < MaxClicks
    /\ clicks' = clicks + 1
    /\ retried' = {}
    /\ UNCHANGED <<asyncs, svars, xvars>>

\* a pause button whose resume leaves the failure streak as it was
PauseGenerationKeepingStreak ==
    /\ ~btnPauseDisabled
    /\ storeIsRunning
    /\ IF storeIsPaused
       THEN LET res == ProcessQueue([Client EXCEPT !.isPaused = FALSE])
            IN /\ res.job # 0 => Len(loops) < MaxLoops
               /\ SetClient(res.c)
               /\ loops' = Spawn(loops, res)
       ELSE /\ SetClient([Client EXCEPT !.isPaused = TRUE])
            /\ loops' = loops
    /\ clicks < MaxClicks
    /\ clicks' = clicks + 1
    /\ UNCHANGED <<nextJobId, asyncs, retried, svars, xvars>>

\* click on Pause / Resume: pauseGeneration
PauseGeneration ==
    /\ ~btnPauseDisabled
    /\ storeIsRunning
    /\ IF storeIsPaused
       THEN LET res == ProcessQueue([Client EXCEPT !.isPaused = FALSE,
                                                   !.consecutiveErrors = 0])
            IN /\ res.job # 0 => Len(loops) < MaxLoops
               /\ SetClient(res.c)
               /\ loops' = Spawn(loops, res)
       ELSE /\ SetClient([Client EXCEPT !.isPaused = TRUE])
            /\ loops' = loops
    /\ clicks < MaxClicks
    /\ clicks' = clicks + 1
    /\ UNCHANGED <<nextJobId, asyncs, retried, svars, xvars>>

\* a cancel that drops the items it stops instead of keeping them pending
CancelGenerationDropping ==
    /\ ~btnStopDisabled
    /\ SetClient(ResetControls([Client EXCEPT
            !.isRunning = FALSE,
            !.isPaused = FALSE,
            !.jobs = SelectSeq(storeJobs, LAMBDA j : j.status # "processing")]))
    /\ clicks < MaxClicks
    /\ clicks' = clicks + 1
    /\ UNCHANGED <<loops, nextJobId, asyncs, retried, svars, xvars>>

\* click on Stop: cancelGeneration
CancelGeneration ==
    /\ ~btnStopDisabled
    /\ SetClient(ResetControls([Client EXCEPT
            !.isRunning = FALSE,
            !.isPaused = FALSE,
            !.jobs = [i \in DOMAIN storeJobs |->
                        IF storeJobs[i].status = "processing"
                        THEN [storeJobs[i] EXCEPT !.status = "pending"]
                        ELSE storeJobs[i]]]))
    /\ clicks < MaxClicks
    /\ clicks' = clicks + 1
    /\ UNCHANGED <<loops, nextJobId, asyncs, retried, svars, xvars>>

\* click on Retry errors: retryErrors, when there is an error to retry
RetryErrors ==
    /\ \E i \in DOMAIN storeJobs : storeJobs[i].status = "error"
    /\ LET c == [Client EXCEPT
                    !.jobs = [i \in DOMAIN storeJobs |->
                                IF storeJobs[i].status = "error"
                                THEN [storeJobs[i] EXCEPT !.status = "pending",
                                                          !.error = NoValue]
                                ELSE storeJobs[i]],
                    !.failedCount = 0,
                    !.consecutiveErrors = 0]
       IN IF ~storeIsRunning
          THEN LET res == ProcessQueue([c EXCEPT !.isRunning = TRUE,
                                                 !.btnStart = TRUE,
                                                 !.btnPause = FALSE,
                                                 !.btnStop = FALSE])
               IN /\ res.job # 0 => Len(loops) < MaxLoops
                  /\ SetClient(res.c)
                  /\ loops' = Spawn(loops, res)
          ELSE /\ SetClient(c)
               /\ loops' = loops
    \* history: the items reset by the retry that restarted the idle loop,
    \* and by the retries made during the drain it started
    /\ retried' = IF ~storeIsRunning \/ retried # {}
                  THEN (IF storeIsRunning THEN retried ELSE {})
                       \cup {storeJobs[i].id : i \in {k \in DOMAIN storeJobs :
                                                      storeJobs[k].status = "error"}}
                  ELSE {}
    /\ clicks < MaxClicks
    /\ clicks' = clicks + 1
    /\ UNCHANGED <<nextJobId, asyncs, svars, xvars>>

\* processQueue after its try block: return when stopped or paused, else sleep
AfterRequest(l, c) ==
    /\ SetClient(c)
    /\ loops' = IF ~c.isRunning \/ c.isPaused
                THEN RemoveAt(loops, l)
                ELSE [loops EXCEPT ![l].pc = "sleep"]

\* the request of loop l is answered: "ok" with an image, "fail" with an error
\* (or the fetch threw), "401" with an expired cookie
FetchDone(l, outcome) ==
    /\ l \in DOMAIN loops
    /\ loops[l].pc = "fetch"
    /\ LET id == loops[l].job IN
       IF outcome = "ok"
       THEN /\ SetClient([Client EXCEPT
                    !.jobs = SetJob(storeJobs, id, [status |-> "completed"]),
                    !.completedCount = @ + 1,
                    !.consecutiveErrors = 0])
            /\ loops' = [loops EXCEPT ![l].pc = "saving"]
       ELSE IF outcome = "401"
       THEN AfterRequest(l, UpdateStatus([RequestFailed(Client, id) EXCEPT
                                               !.isPaused = TRUE], FALSE))
       ELSE AfterRequest(l, RequestFailed(Client, id))
    /\ UNCHANGED <<nextJobId, clicks, asyncs, retried, svars, xvars>>

\* dbSaveImage of loop l has stored the image
SaveDone(l) ==
    /\ l \in DOMAIN loops
    /\ loops[l].pc = "saving"
    /\ AfterRequest(l, Client)
    /\ UNCHANGED <<nextJobId, clicks, asyncs, retried, svars, xvars>>

\* the backoff sleep of loop l ends: processQueue()
SleepEnds(l) ==
    /\ l \in DOMAIN loops
    /\ loops[l].pc = "sleep"
    /\ LET res == ProcessQueue(Client) IN
       /\ SetClient(res.c)
       /\ loops' = Spawn(RemoveAt(loops, l), res)
    /\ UNCHANGED <<nextJobId, clicks, asyncs, retried, svars, xvars>>

\* -------------------------------------------- app.js, the card and clear actions

\* store.jobs.findIndex(j => j.id === jobId), counted from 1, 0 when absent
FindIndex(jobs, jobId) ==
    IF \E i \in DOMAIN jobs : jobs[i].id = jobId
    THEN CHOOSE i \in DOMAIN jobs :
            /\ jobs[i].id = jobId
            /\ \A k \in DOMAIN jobs : jobs[k].id = jobId => i <= k
    ELSE 0

\* an async handler waiting on the content store or on its request
Waiting(op, id, idx) ==
    [op |-> op, id |-> id, idx |-> idx]

\* click on the delete button of a card: deleteJob up to await dbDeleteImage
DeleteJob(id) ==
    /\ clicks < MaxClicks
    /\ Len(asyncs) < MaxAsyncs
    /\ FindIndex(storeJobs, id) # 0
    /\ asyncs' = Append(asyncs, Waiting("delete", id, FindIndex(storeJobs, id)))
    /\ clicks' = clicks + 1
    /\ UNCHANGED <<storeJobs, storeIsRunning, storeIsPaused, storeConsecutiveErrors,
                   storeCompletedCount, storeFailedCount, storeTotalCount,
                   storeCookieValid, btnStartDisabled, btnPauseDisabled,
                   btnStopDisabled, loops, nextJobId, retried, svars, xvars>>

\* deleteJob after the await: the item now at the index found before the
\* await is counted out and removed; the handler throws when there is none
DeleteJobDone(a) ==
    /\ a \in DOMAIN asyncs
    /\ asyncs[a].op = "delete"
    /\ LET idx == asyncs[a].idx IN
       IF idx \notin DOMAIN storeJobs
       THEN UNCHANGED <<storeJobs, storeCompletedCount, storeFailedCount, storeTotalCount>>
       ELSE /\ storeCompletedCount' = IF storeJobs[idx].status = "completed"
                                      THEN storeCompletedCount - 1 ELSE storeCompletedCount
            /\ storeFailedCount' = IF storeJobs[idx].status = "error"
                                   THEN storeFailedCount - 1 ELSE storeFailedCount
            /\ storeTotalCount' = storeTotalCount - 1
            /\ storeJobs' = RemoveAt(storeJobs, idx)
    /\ asyncs' = RemoveAt(asyncs, a)
    /\ UNCHANGED <<storeIsRunning, storeIsPaused, storeConsecutiveErrors,
                   storeCookieValid, btnStartDisabled, btnPauseDisabled,
                   btnStopDisabled, loops, nextJobId, clicks, retried, svars, xvars>>

\* click on the regenerate button of a card: regenerateSingleJob up to its
\* request
RegenerateSingleJob(id) ==
    /\ clicks < MaxClicks
    /\ Len(asyncs) < MaxAsyncs
    /\ FindIndex(storeJobs, id) # 0
    /\ storeCookieValid
    /\ storeFailedCount' = IF storeJobs[FindIndex(storeJobs, id)].status = "error"
                           THEN storeFailedCount - 1 ELSE storeFailedCount
    /\ storeJobs' = SetJob(storeJobs, id, [status |-> "processing", error |-> NoValue])
    /\ asyncs' = Append(asyncs, Waiting("regenerate", id, 0))
    /\ clicks' = clicks + 1
    /\ UNCHANGED <<storeIsRunning, storeIsPaused, storeConsecutiveErrors,
                   storeCompletedCount, storeTotalCount, storeCookieValid,
                   btnStartDisabled, btnPauseDisabled, btnStopDisabled, loops,
                   nextJobId, retried, svars, xvars>>

\* the request of regenerateSingleJob is answered
RegenerateDone(a, outcome) ==
    /\ a \in DOMAIN asyncs
    /\ asyncs[a].op = "regenerate"
    /\ LET id == asyncs[a].id IN
       IF outcome = "ok"
       THEN SetClient([Client EXCEPT
                !.jobs = SetJob(storeJobs, id, [status |-> "completed"]),
                !.completedCount = @ + 1])
       ELSE LET c == [Client EXCEPT
                        !.jobs = SetJob(storeJobs, id, [status |-> "error", error |-> "err"]),
                        !.failedCount = @ + 1]
            IN SetClient(IF outcome = "401" THEN UpdateStatus(c, FALSE) ELSE c)
    /\ asyncs' = RemoveAt(asyncs, a)
    /\ UNCHANGED <<loops, nextJobId, clicks, retried, svars, xvars>>

\* click on Clear all: clearAll up to await dbClearAll
ClearAll ==
    /\ clicks < MaxClicks
    /\ Len(asyncs) < MaxAsyncs
    /\ SetClient(IF storeIsRunning
                 THEN [Client EXCEPT !.isRunning = FALSE, !.isPaused = FALSE]
                 ELSE Client)
    /\ asyncs' = Append(asyncs, Waiting("clear", 0, 0))
    /\ clicks' = clicks + 1
    /\ UNCHANGED <<loops, nextJobId, retried, svars, xvars>>

\* clearAll after the await: the list and the counters are reset
ClearAllDone(a) ==
    /\ a \in DOMAIN asyncs
    /\ asyncs[a].op = "clear"
    /\ SetClient(ResetControls([Client EXCEPT !.jobs = <<>>,
                                              !.completedCount = 0,
                                              !.failedCount = 0,
                                              !.totalCount = 0,
                                              !.consecutiveErrors = 0]))
    /\ asyncs' = RemoveAt(asyncs, a)
    /\ UNCHANGED <<loops, nextJobId, clicks, retried, svars, xvars>>

\* -------------------------------------------------------------- specifications

\* the server: the job store and its worker under every call, timer and crash
Next ==
    \/ \E c \in Cookies, n \in 0..MaxPrompts :
          TotalPrompts(jobsCache) + n <= MaxTotalPrompts /\ DoCreateJob(c, n)
    \/ \E id \in 1..MaxJobs : id < nextId /\ DoCancelJob(id)
    \/ \E b \in BroadcastFns : Start(b)
    \/ \E cl \in BOOLEAN : StartLoop(cl)
    \/ Stop
    \/ \E cl \in BOOLEAN : Tick(cl)
    \/ \E k \in 1..MaxChains, ok \in BOOLEAN, cl \in BOOLEAN : GenDone(k, ok, cl)
    \/ \E k \in 1..MaxChains, cl \in BOOLEAN : SleepDone(k, cl)
    \/ SaveTimerFires
    \/ AutoSave
    \/ Advance
    \/ Crash

Spec == Init /\ [][Next]_vars

\* the server draining long jobs: a first job long enough for the failure
\* streak to reach the threshold, then a one-prompt job, with a callback that
\* never throws and neither stop nor crash
NextLong ==
    \/ \E n \in AbortThreshold..LongPrompts : nextId = 1 /\ DoCreateJob("c1", n)
    \/ nextId = 2 /\ DoCreateJob("c1", 1)
    \/ Start({})
    \/ StartLoop(FALSE)
    \/ Tick(FALSE)
    \/ \E ok \in BOOLEAN : GenDone(1, ok, FALSE)
    \/ SleepDone(1, FALSE)

SpecLong == Init /\ [][NextLong]_vars

\* the browser session: the queue engine under every click and every answer
NextClient ==
    \/ ValidateCookie
    \/ \E n \in 1..MaxClientJobs :
          nextJobId + n - 1 <= MaxClientJobs /\ StartGeneration(n)
    \/ PauseGeneration
    \/ CancelGeneration
    \/ RetryErrors
    \/ \E l \in 1..MaxLoops, outcome \in {"ok", "fail", "401"} : FetchDone(l, outcome)
    \/ \E l \in 1..MaxLoops : SaveDone(l)
    \/ \E l \in 1..MaxLoops : SleepEnds(l)
    \/ \E id \in 1..MaxClientJobs : DeleteJob(id)
    \/ \E a \in 1..MaxAsyncs : DeleteJobDone(a)
    \/ \E id \in 1..MaxClientJobs : RegenerateSingleJob(id)
    \/ \E a \in 1..MaxAsyncs, outcome \in {"ok", "fail", "401"} : RegenerateDone(a, outcome)
    \/ ClearAll
    \/ \E a \in 1..MaxAsyncs : ClearAllDone(a)

SpecClient == Init /\ [][NextClient]_vars

\* the browser draining one long list: enough items for the failure streak
\* to reach the threshold with an item still pending, under the pause and
\* retry buttons, the cookie staying valid
NextClientLong ==
    \/ ValidateCookie
    \/ \E n \in PauseThreshold..LongClientJobs : nextJobId = 1 /\ StartGeneration(n)
    \/ PauseGeneration
    \/ RetryErrors
    \/ \E l \in 1..MaxLoops, outcome \in {"ok", "fail"} : FetchDone(l, outcome)
    \/ \E l \in 1..MaxLoops : SaveDone(l)
    \/ \E l \in 1..MaxLoops : SleepEnds(l)

SpecClientLong == Init /\ [][NextClientLong]_vars

\* ============================================ queue.js, the snapshot files

\* The two files of the store as saveToDisk and loadJobsFromDisk see them.
\* disk is the primary file and bak the .bak file; diskTorn and bakTorn tell
\* that the file holds a partial write, which JSON.parse rejects.  result is
\* how the last saveToDisk went: "none" (nothing to write), "ok", "failed"
\* (the write threw and was caught) or "crashed" (the process died in it).
Files ==
    [s |-> Store, diskTorn |-> diskTorn, bak |-> bak, bakTorn |-> bakTorn,
     result |-> "none", copyFailed |-> FALSE]

TornFile == [exists |-> TRUE, jobs |-> <<>>]

\* loadJobsFromDisk: the primary file when it exists and parses; the backup
\* is read only in the catch block, that is when the primary exists and does
\* not parse; [] in every other case
LoadFromFiles(f) ==
    IF f.s.disk.exists
    THEN IF ~f.diskTorn THEN f.s.disk.jobs
         ELSE IF f.bak.exists /\ ~f.bakTorn THEN f.bak.jobs
         ELSE <<>>
    ELSE <<>>

\* How one saveToDisk call can go: "ok"; "copyFails" (copyFileSync throws, is
\* swallowed, the write goes on); "writeFails" (writeFileSync throws before it
\* truncates the file); "writeTorn" (writeFileSync throws after writing a
\* part); "crashInCopy" and "crashInWrite" (the process dies inside
\* copyFileSync, inside writeFileSync).
FlushOutcomes ==
    {"ok", "copyFails", "writeFails", "writeTorn", "crashInCopy", "crashInWrite"}

\* fs.copyFileSync(JOBS_FILE, backup), whole or cut short
CopyToBackup(f, whole) ==
    IF whole
    THEN [f EXCEPT !.bak = f.s.disk, !.bakTorn = f.diskTorn]
    ELSE [f EXCEPT !.bak = TornFile, !.bakTorn = TRUE]

\* a slip that clears the dirty flag before the write is attempted
SaveToDiskClearingFirst(f, how) ==
    IF ~f.s.isDirty THEN [f EXCEPT !.result = "none"]
    ELSE IF how = "crashInCopy"
    THEN [CopyToBackup(f, FALSE) EXCEPT !.result = "crashed"]
    ELSE LET f1 == IF ~f.s.disk.exists THEN f
                   ELSE IF how = "copyFails" THEN [f EXCEPT !.copyFailed = TRUE]
                   ELSE CopyToBackup(f, TRUE)
         IN IF how \in {"ok", "copyFails"}
            THEN [f1 EXCEPT !.s.disk = [exists |-> TRUE, jobs |-> f.s.jobsCache],
                            !.diskTorn = FALSE,
                            !.s.isDirty = FALSE,
                            !.result = "ok"]
            ELSE IF how = "writeFails"
            THEN [f1 EXCEPT !.s.isDirty = FALSE, !.result = "failed"]
            ELSE [f1 EXCEPT !.s.disk = TornFile,
                            !.diskTorn = TRUE,
                            !.s.isDirty = FALSE,
                            !.result = IF how = "writeTorn" THEN "failed" ELSE "crashed"]

\* saveToDisk, going as how says
SaveToDiskFiles(f, how) ==
    IF ~f.s.isDirty THEN [f EXCEPT !.result = "none"]
    ELSE IF how = "crashInCopy"
    THEN [CopyToBackup(f, FALSE) EXCEPT !.result = "crashed"]
    ELSE LET f1 == IF ~f.s.disk.exists THEN f
                   ELSE IF how = "copyFails" THEN [f EXCEPT !.copyFailed = TRUE]
                   ELSE CopyToBackup(f, TRUE)
         IN IF how \in {"ok", "copyFails"}
            THEN [f1 EXCEPT !.s.disk = [exists |-> TRUE, jobs |-> f.s.jobsCache],
                            !.diskTorn = FALSE,
                            !.s.isDirty = FALSE,
                            !.result = "ok"]
            ELSE IF how = "writeFails"
            THEN [f1 EXCEPT !.result = "failed"]
            ELSE [f1 EXCEPT !.s.disk = TornFile,
                            !.diskTorn = TRUE,
                            !.result = IF how = "writeTorn" THEN "failed" ELSE "crashed"]

\* saveNow on the files
SaveNowFiles(f, how) ==
    SaveToDiskFiles([f EXCEPT !.s.isDirty = TRUE, !.s.saveTimer = FALSE], how)

\* A call of the store, computed by its operator above as s1, with its write
\* carried out on the files: the call ran saveNow exactly when s1 is left
\* clean (scheduleSave leaves the dirty flag set), and its write goes as how
\* says.
Persist(s1, how) ==
    LET f == [Files EXCEPT !.s.jobsCache = s1.jobsCache] IN
    IF ~s1.isDirty
    THEN SaveNowFiles(f, how)
    ELSE [f EXCEPT !.s = ScheduleSave(f.s)]

\* the process is started again after it died: the module state is fresh and
\* the first getJobs() loads the files
Restarted(f) ==
    [f EXCEPT !.s.jobsCache = LoadFromFiles(f),
              !.s.isDirty = FALSE,
              !.s.saveTimer = FALSE]

\* the state after a call that left the files as f
SetFiles(f) ==
    /\ SetStore(IF f.result = "crashed" THEN Restarted(f).s ELSE f.s)
    /\ diskTorn' = f.diskTorn
    /\ bak' = f.bak
    /\ bakTorn' = f.bakTorn
    /\ flushResult' = f.result
    /\ flushes' = IF f.result = "none" THEN flushes ELSE flushes + 1
    /\ flushed' = IF f.result = "ok" THEN Append(flushed, f.s.disk.jobs) ELSE flushed
    /\ faults' = faults \cup (IF f.result = "failed" THEN {"write"} ELSE {})
                        \cup (IF f.copyFailed THEN {"copy"} ELSE {})

\* how a write may go in the present state
MayGo(how) ==
    /\ how \in FlushOutcomes
    /\ how \in {"copyFails", "crashInCopy"} => disk.exists
    /\ flushes < MaxFlushes

\* createJob
FilesCreateJob(n, how) ==
    /\ nextId <= MaxJobs
    /\ MayGo(how)
    /\ SetFiles(Persist(CreateJob(Store, nextId, "c1", n, now), how))
    /\ nextId' = nextId + 1
    /\ createdWith' = Append(createdWith, n)
    /\ UNCHANGED <<wvars, now, rareEvents, emitted, eventLog, calls, ended, cvars, tvars, wrote, called, bvars, yvars, pvars, zvars>>

\* updatePrompt of a prompt of a stored job
FilesUpdatePrompt(jobId, promptId, st) ==
    /\ JobIndex(jobsCache, jobId) # 0
    /\ promptId \in DOMAIN jobsCache[JobIndex(jobsCache, jobId)].prompts
    /\ jobsCache[JobIndex(jobsCache, jobId)].prompts[promptId].status # st
    /\ SetFiles(Persist(UpdatePrompt(Store, jobId, promptId, [status |-> st]), "ok"))
    /\ UNCHANGED <<wvars, hvars, cvars, tvars, wrote, called, bvars, yvars, pvars, zvars>>

\* cancelJob of a stored job: updateJob with a status
FilesCancelJob(jobId, how) ==
    /\ JobIndex(jobsCache, jobId) # 0
    /\ jobsCache[JobIndex(jobsCache, jobId)].status # "cancelled"
    /\ MayGo(how)
    /\ SetFiles(Persist(CancelJobOp(Store, jobId, now), how))
    /\ UNCHANGED <<wvars, hvars, cvars, tvars, wrote, called, bvars, yvars, pvars, zvars>>

\* the debounce timer fires: saveToDisk
FilesSaveTimerFires(how) ==
    /\ saveTimer
    /\ MayGo(how)
    /\ SetFiles(SaveToDiskFiles([Files EXCEPT !.s.saveTimer = FALSE], how))
    /\ UNCHANGED <<wvars, hvars, cvars, tvars, wrote, called, bvars, yvars, pvars, zvars>>

\* the 30 second interval fires with the dirty flag set: saveToDisk
FilesAutoSave(how) ==
    /\ isDirty
    /\ MayGo(how)
    /\ SetFiles(SaveToDiskFiles(Files, how))
    /\ UNCHANGED <<wvars, hvars, cvars, tvars, wrote, called, bvars, yvars, pvars, zvars>>

\* the process dies outside saveToDisk and is started again
FilesCrash ==
    /\ rareEvents < MaxRareEvents
    /\ rareEvents' = rareEvents + 1
    /\ SetStore(Restarted(Files).s)
    /\ flushResult' = "none"
    /\ UNCHANGED <<diskTorn, bak, bakTorn, flushed, faults, flushes>>
    /\ UNCHANGED <<wvars, now, nextId, emitted, eventLog, calls, createdWith, ended, cvars, tvars, wrote, called, bvars, yvars, pvars, zvars>>

\* the primary file is removed from outside the program (an operator, a
\* restore of the data directory), the process not running; it is then started
PrimaryLost ==
    /\ disk.exists
    /\ "lost" \notin faults
    /\ LET f == [Files EXCEPT !.s.disk = NoFile, !.diskTorn = FALSE] IN
       /\ SetStore(Restarted(f).s)
       /\ diskTorn' = FALSE
    /\ faults' = faults \cup {"lost"}
    /\ flushResult' = "none"
    /\ UNCHANGED <<bak, bakTorn, flushed, flushes>>
    /\ UNCHANGED <<wvars, hvars, cvars, tvars, wrote, called, bvars, yvars, pvars, zvars>>

\* the job store and its two files under every call, every way a write can
\* go, crashes and the loss of the primary file
NextFiles ==
    \/ \E how \in FlushOutcomes : FilesCreateJob(1, how)
    \/ \E id \in 1..MaxJobs : FilesUpdatePrompt(id, 1, "completed")
    \/ \E id \in 1..MaxJobs, how \in FlushOutcomes : FilesCancelJob(id, how)
    \/ \E how \in FlushOutcomes : FilesSaveTimerFires(how)
    \/ \E how \in FlushOutcomes : FilesAutoSave(how)
    \/ FilesCrash
    \/ PrimaryLost

SpecFiles == Init /\ [][NextFiles]_vars

\* ================================================= queue.js, the two timers

\* The clock moves in steps of half the debounce window, so that two calls
\* less than a window apart are zero or one step apart.
TickMs ==
    DebounceMs \div 2

\* a slip that leaves a pending timer as it is
KeepArmed(pending, due, t) ==
    IF pending THEN due ELSE t + DebounceMs

\* scheduleSave at time t: clearTimeout, then setTimeout(saveToDisk, 2000);
\* the result is when the timer is due
Rearm(pending, due, t) ==
    t + DebounceMs

\* a slip that leaves the write to the debounce timer when one is pending
IntervalFlushUnlessPending(s) ==
    IF s.isDirty /\ ~s.saveTimer THEN SaveToDisk(s) ELSE s

\* the callback of the 30 second interval
IntervalFlush(s) ==
    IF s.isDirty THEN SaveToDisk(s) ELSE s

\* The state after a store call made at the present time that left the store
\* as s1: the call ran scheduleSave when the timer is pending in s1, and
\* saveNow (a write, the timer cancelled) otherwise.
TimedCall(s1, name) ==
    /\ SetStore(s1)
    /\ called' = name
    /\ wrote' = IF s1.saveTimer THEN "none" ELSE "now"
    /\ saveDue' = IF s1.saveTimer THEN Rearm(saveTimer, saveDue, clock) ELSE NoTime
    /\ lastCallAt' = IF s1.saveTimer THEN clock ELSE lastCallAt
    /\ burst' = IF ~s1.saveTimer THEN burst
                ELSE IF ~saveTimer THEN 1
                ELSE IF burst < MaxBurst THEN burst + 1 ELSE burst
    /\ dirtySince' = IF ~s1.isDirty THEN NoTime
                     ELSE IF dirtySince = NoTime THEN clock ELSE dirtySince
    /\ UNCHANGED <<clock, autoDue>>

\* createJob, at any time
TimedCreateJob(n) ==
    /\ nextId = 1
    /\ TimedCall(CreateJob(Store, nextId, "c1", n, now), "createJob")
    /\ nextId' = nextId + 1
    /\ createdWith' = Append(createdWith, n)
    /\ UNCHANGED <<wvars, now, rareEvents, emitted, eventLog, calls, ended, cvars, fvars, flushResult, bvars, yvars, pvars, zvars>>

\* updatePrompt of a prompt of a stored job, at any time
TimedUpdatePrompt(jobId, promptId, st) ==
    /\ JobIndex(jobsCache, jobId) # 0
    /\ promptId \in DOMAIN jobsCache[JobIndex(jobsCache, jobId)].prompts
    /\ TimedCall(UpdatePrompt(Store, jobId, promptId, [status |-> st]), "updatePrompt")
    /\ UNCHANGED <<wvars, hvars, cvars, fvars, flushResult, bvars, yvars, pvars, zvars>>

\* updateJob of a stored job with updates that carry a status, or do not
TimedUpdateJob(jobId, updates) ==
    /\ JobIndex(jobsCache, jobId) # 0
    /\ TimedCall(UpdateJob(Store, jobId, updates),
                 IF "status" \in DOMAIN updates THEN "updateJob status" ELSE "updateJob")
    /\ UNCHANGED <<wvars, hvars, cvars, fvars, flushResult, bvars, yvars, pvars, zvars>>

\* the debounce timer is due: saveToDisk
TimedSaveTimerFires ==
    /\ saveTimer
    /\ saveDue = clock
    /\ SetStore(SaveToDisk([Store EXCEPT !.saveTimer = FALSE]))
    /\ called' = "timer"
    /\ wrote' = IF isDirty THEN "debounce" ELSE "none"
    /\ saveDue' = NoTime
    /\ dirtySince' = NoTime
    /\ UNCHANGED <<clock, autoDue, lastCallAt, burst>>
    /\ UNCHANGED <<wvars, hvars, cvars, fvars, flushResult, bvars, yvars, pvars, zvars>>

\* the 30 second interval is due
TimedAutoSave ==
    /\ autoDue = clock
    /\ SetStore(IntervalFlush(Store))
    /\ called' = "interval"
    /\ wrote' = IF isDirty' # isDirty THEN "interval" ELSE "none"
    /\ autoDue' = autoDue + AutosaveMs
    /\ dirtySince' = IF isDirty' THEN dirtySince ELSE NoTime
    /\ UNCHANGED <<clock, saveDue, lastCallAt, burst>>
    /\ UNCHANGED <<wvars, hvars, cvars, fvars, flushResult, bvars, yvars, pvars, zvars>>

\* time passes, no timer being due
TimePasses ==
    /\ clock + TickMs <= MaxTicks * TickMs
    /\ saveTimer => saveDue > clock
    /\ autoDue > clock
    /\ clock' = clock + TickMs
    /\ called' = "none"
    /\ wrote' = "none"
    /\ UNCHANGED <<qvars, saveDue, autoDue, lastCallAt, dirtySince, burst>>
    /\ UNCHANGED <<wvars, hvars, cvars, fvars, flushResult, bvars, yvars, pvars, zvars>>

\* the job store and its two timers on the clock, every write succeeding
NextTimed ==
    \/ TimedCreateJob(1)
    \/ \E st \in {"processing", "completed"} : TimedUpdatePrompt(1, 1, st)
    \/ \E u \in {[status |-> "processing"], [startedAt |-> 0]} : TimedUpdateJob(1, u)
    \/ TimedSaveTimerFires
    \/ TimedAutoSave
    \/ TimePasses

SpecTimed == Init /\ [][NextTimed]_vars

\* ==================================================== the backoff controller

RECURSIVE Pow2(_)
\* Math.pow(2, n) for an integer n >= 0
Pow2(n) ==
    IF n = 0 THEN 1 ELSE 2 * Pow2(n - 1)

\* Math.min
Min(a, b) ==
    IF a <= b THEN a ELSE b

\* a slip that starts doubling at the second failure
GetBackoffDelayLate(n, base, cap) ==
    IF n = 0 THEN base ELSE Min(base * Pow2(n - 1), cap)

\* getBackoffDelay with the streak n: the base delay when the streak is zero,
\* else the doubled delay under the cap
GetBackoffDelay(n, base, cap) ==
    IF n = 0 THEN base ELSE Min(base * Pow2(n), cap)

\* processJob of worker.js after processPrompt returned: the streak is zero
\* after a success and one more after a failure, from which the delay is taken
WorkerDelayTaken(ok) ==
    /\ ok \/ consecutiveErrors < MaxStreak
    /\ consecutiveErrors' = IF ok THEN 0 ELSE consecutiveErrors + 1
    /\ workerDelay' = GetBackoffDelay(consecutiveErrors', BASE_DELAY, MAX_BACKOFF)
    /\ UNCHANGED <<qvars, isRunning, isProcessing, broadcastFn, passes, tickTimers,
                   starting, recovered, hvars, cvars, fvars, tvars, nvars, clientDelay, yvars, pvars, zvars>>

\* processQueue of app.js after its request settled, likewise
ClientDelayTaken(ok) ==
    /\ ok \/ storeConsecutiveErrors < MaxStreak
    /\ storeConsecutiveErrors' = IF ok THEN 0 ELSE storeConsecutiveErrors + 1
    /\ clientDelay' = GetBackoffDelay(storeConsecutiveErrors', CLIENT_BASE_DELAY,
                                      CLIENT_MAX_BACKOFF)
    /\ UNCHANGED <<storeJobs, storeIsRunning, storeIsPaused, storeCompletedCount,
                   storeFailedCount, storeTotalCount, storeCookieValid,
                   btnStartDisabled, btnPauseDisabled, btnStopDisabled, loops,
                   nextJobId, clicks, asyncs, retried, svars, fvars, tvars, nvars, workerDelay,
                   yvars, pvars, zvars>>

\* the two backoff controllers under every run of successes and failures
NextBackoff ==
    \/ \E ok \in BOOLEAN : WorkerDelayTaken(ok)
    \/ \E ok \in BOOLEAN : ClientDelayTaken(ok)

SpecBackoff == Init /\ [][NextBackoff]_vars

\* The server draining a mock job, alone or behind a job of a real
\* credential long enough for the failure streak to reach the threshold; the
\* callback never throws and the worker is neither stopped nor killed.
NextMock ==
    \/ nextId = 1 /\ DoCreateJob("c1", AbortThreshold)
    \/ \E n \in 1..MaxPrompts : DoCreateJob("MOCK", n)
    \/ \E id \in 1..MaxJobs : id < nextId /\ DoCancelJob(id)
    \/ Start({})
    \/ StartLoop(FALSE)
    \/ Tick(FALSE)
    \/ \E ok \in BOOLEAN : GenDone(1, ok, FALSE)
    \/ SleepDone(1, FALSE)

\* the server boots the worker, timers fire, generation calls settle
FairMock ==
    /\ WF_vars(Start({}))
    /\ WF_vars(StartLoop(FALSE))
    /\ WF_vars(Tick(FALSE))
    /\ WF_vars(\E ok \in BOOLEAN : GenDone(1, ok, FALSE))
    /\ WF_vars(SleepDone(1, FALSE))

SpecMock == Init /\ [][NextMock]_vars /\ FairMock

\* ================================== app.js, the queue snapshot in localStorage

\* SpecRestore is the persistence of the browser queue: the session moves
\* its list of items, _doSaveQueueState writes its snapshot, and a page
\* load runs restoreQueueState.  Items are here in full: id, prompt, status,
\* blobUrl and error.

Prompts == {"a", "b"}
Undefined == "undefined"

\* the items a session can hold at position id: an error text (or an
\* undefined err.message) only on an error item, a blob URL only on a
\* completed one
QueueItems(id) ==
    {j \in [id : {id}, prompt : Prompts,
            status : {"pending", "processing", "completed", "error"},
            blobUrl : {NoValue, "blob"}, error : {NoValue, "err", Undefined}] :
        /\ (j.error # NoValue) <=> (j.status = "error")
        /\ (j.blobUrl # NoValue) => (j.status = "completed")}

\* the number of items of a list with a status
CountOf(jobs, st) ==
    Cardinality({i \in DOMAIN jobs : jobs[i].status = st})

\* obj[f] === undefined; of the properties saved only the texts can be
IsUndefined(obj, f) ==
    f \in {"prompt", "status", "error"} /\ obj[f] = Undefined

\* reading a property of a parsed object: undefined when it is absent
Get(obj, f) ==
    IF f \in DOMAIN obj THEN obj[f] ELSE Undefined

\* JSON.stringify of a flat object: a property whose value is undefined is
\* left out of the text
JsonStringify(obj) ==
    [f \in {g \in DOMAIN obj : ~IsUndefined(obj, g)} |-> obj[f]]

\* data[f] || 0 of a count read back
OrZero(obj, f) ==
    IF f \in DOMAIN obj THEN obj[f] ELSE 0

\* the meta object _doSaveQueueState builds of a job
QueueMeta(j) ==
    [id |-> j.id, prompt |-> j.prompt, status |-> j.status, error |-> j.error]

\* the text _doSaveQueueState stores under 'bulkmass_queue'
QueueSnapshot(c) ==
    JsonStringify([jobs |-> [i \in DOMAIN c.jobs |-> JsonStringify(QueueMeta(c.jobs[i]))],
                   isRunning |-> c.isRunning,
                   isPaused |-> c.isPaused,
                   completedCount |-> c.completedCount,
                   failedCount |-> c.failedCount,
                   totalCount |-> c.totalCount])

\* a restore that takes the status as it was saved
RestoreJobAsSaved(j) ==
    [id |-> Get(j, "id"), prompt |-> Get(j, "prompt"), status |-> Get(j, "status"),
     blobUrl |-> NoValue, error |-> Get(j, "error")]

\* the job object restoreQueueState builds of a saved one
RestoreJob(j) ==
    [id |-> Get(j, "id"),
     prompt |-> Get(j, "prompt"),
     status |-> IF Get(j, "status") = "processing" THEN "pending" ELSE Get(j, "status"),
     blobUrl |-> NoValue,
     error |-> Get(j, "error")]

\* JSON.parse of the text stored under 'bulkmass_queue', when there is one;
\* localStorage is the empty sequence when there is none
Saved ==
    localStorage[1]

\* the store of a page that has just loaded
FreshStore ==
    [jobs |-> <<>>, isRunning |-> FALSE, isPaused |-> FALSE, consecutiveErrors |-> 0,
     completedCount |-> 0, failedCount |-> 0, totalCount |-> 0, cookieValid |-> FALSE,
     btnStart |-> TRUE, btnPause |-> TRUE, btnStop |-> TRUE]

\* the session goes on: the item at position i of the list, or a new item
\* at its end, comes to be j (a request sent, answered or failed, a retry,
\* a new item built); an image that is shown has been stored in IndexedDB
SessionMoves(i, j) ==
    /\ i \in 1..(Len(storeJobs) + 1)
    /\ i <= MaxSaved
    /\ LET js == IF i \in DOMAIN storeJobs THEN [storeJobs EXCEPT ![i] = j]
                 ELSE Append(storeJobs, j)
       IN SetClient([Client EXCEPT !.jobs = js,
                                   !.isRunning = CountOf(js, "processing") > 0,
                                   !.isPaused = FALSE,
                                   !.completedCount = CountOf(js, "completed"),
                                   !.failedCount = CountOf(js, "error"),
                                   !.totalCount = Len(js)])
    /\ imageDb' = IF j.blobUrl = "blob" THEN imageDb \cup {j.id} ELSE imageDb
    /\ UNCHANGED <<loops, nextJobId, clicks, asyncs, retried, svars, fvars, tvars,
                   nvars, bvars, localStorage, savedFrom, pvars, zvars>>

\* the 500 ms timer of saveQueueState fires: _doSaveQueueState
DoSaveQueueState ==
    /\ localStorage' = <<QueueSnapshot(Client)>>
    /\ savedFrom' = storeJobs
    /\ UNCHANGED <<cvars, svars, fvars, tvars, nvars, bvars, imageDb, pvars, zvars>>

\* the page is loaded again: restoreQueueState up to its await
RestoreQueueState ==
    /\ IF \/ localStorage = <<>>
          \/ "jobs" \notin DOMAIN Saved
          \/ Len(Saved.jobs) = 0
       THEN /\ SetClient(FreshStore)
            /\ asyncs' = <<>>
       ELSE /\ SetClient([FreshStore EXCEPT
                    !.jobs = [i \in DOMAIN Saved.jobs |-> RestoreJob(Saved.jobs[i])],
                    !.completedCount = OrZero(Saved, "completedCount"),
                    !.failedCount = OrZero(Saved, "failedCount"),
                    !.totalCount = OrZero(Saved, "totalCount")])
            /\ asyncs' = <<Waiting("restore", 0, 0)>>
    /\ loops' = <<>>
    /\ retried' = {}
    /\ UNCHANGED <<nextJobId, clicks, svars, fvars, tvars, nvars, bvars, yvars, pvars, zvars>>

\* restoreQueueState after the await: the completed jobs whose image is in
\* IndexedDB get a blob URL
RestoreBlobs(a) ==
    /\ a \in DOMAIN asyncs
    /\ asyncs[a].op = "restore"
    /\ storeJobs' = [i \in DOMAIN storeJobs |->
                        IF storeJobs[i].status = "completed" /\ storeJobs[i].id \in imageDb
                        THEN [storeJobs[i] EXCEPT !.blobUrl = "blob"]
                        ELSE storeJobs[i]]
    /\ asyncs' = RemoveAt(asyncs, a)
    /\ UNCHANGED <<storeIsRunning, storeIsPaused, storeConsecutiveErrors,
                   storeCompletedCount, storeFailedCount, storeTotalCount,
                   storeCookieValid, btnStartDisabled, btnPauseDisabled,
                   btnStopDisabled, loops, nextJobId, clicks, retried, svars, xvars>>

\* clearAll, as far as the snapshot goes: the list, the images and the
\* snapshot are removed
QueueCleared ==
    /\ SetClient(ResetControls([Client EXCEPT !.jobs = <<>>,
                                              !.isRunning = FALSE,
                                              !.isPaused = FALSE,
                                              !.completedCount = 0,
                                              !.failedCount = 0,
                                              !.totalCount = 0,
                                              !.consecutiveErrors = 0]))
    /\ localStorage' = <<>>
    /\ imageDb' = {}
    /\ savedFrom' = <<>>
    /\ UNCHANGED <<loops, nextJobId, clicks, asyncs, retried, svars, fvars, tvars,
                   nvars, bvars, pvars, zvars>>

NextRestore ==
    \/ \E i \in 1..MaxSaved : \E j \in QueueItems(i) : SessionMoves(i, j)
    \/ DoSaveQueueState
    \/ RestoreQueueState
    \/ \E a \in 1..MaxAsyncs : RestoreBlobs(a)
    \/ QueueCleared

SpecRestore == Init /\ [][NextRestore]_vars

\* ------------------------------------------------ server.js, the proxy
\* the cookie of a request body: none, the mock literal, a cookie string,
\* and a JSON array of no cookies
BodyCookies == {"", "MOCK", "c1", "[]"}

\* parseCookies(input).cookieString
ParseCookies(input) ==
    IF input = "[]" THEN "" ELSE input

RECURSIVE SumOver(_, _)
SumOver(f, S) ==
    IF S = {} THEN 0
    ELSE LET t == CHOOSE x \in S : TRUE
         IN f[t] + SumOver(f, S \ {t})

\* the requests of ip handed to the handler in the 60 seconds up to now
PassedWithin(ip) ==
    SumOver(passed[ip], {t \in RateTimes : t <= serverNow /\ serverNow - t < RateWindowMs})

\* the record the rate limit middleware stores for a request of ip
RateRecord(ip) ==
    LET record == rateLimits[ip]
        current == IF record = NoRecord \/ serverNow > record.resetAt
                   THEN [count |-> 0, resetAt |-> serverNow + RateWindowMs]
                   ELSE record
    IN [current EXCEPT !.count = @ + 1]

Answer(ip, cookie, prompt, status, image, usedWhisk) ==
    [ip |-> ip, cookie |-> cookie, prompt |-> prompt, status |-> status,
     success |-> status = 200, image |-> image, usedWhisk |-> usedWhisk]

Call(ip, cookie, prompt, pc) ==
    [ip |-> ip, cookie |-> cookie, prompt |-> prompt, pc |-> pc,
     timer |-> IF pc = "whisk" THEN "armed" ELSE "none",
     due |-> IF pc = "whisk" THEN serverNow + AbortMs ELSE NoTime]

\* the start of server.js: loadWhiskApi, then app.listen
LoadWhiskApi(ok) ==
    /\ ~listening
    /\ Whisk' = IF ok THEN "module" ELSE "null"
    /\ listening' = TRUE
    /\ UNCHANGED <<rateLimits, passed, requests, responses, serverNow>>
    /\ UNCHANGED <<svars, cvars, fvars, tvars, nvars, bvars, yvars, zvars>>

\* POST /api/generate: the rate limit middleware and, when it calls next(),
\* the handler up to its first await
PostGenerate(ip, cookie, prompt) ==
    /\ listening
    /\ LET record == RateRecord(ip)
       IN /\ rateLimits' = [rateLimits EXCEPT ![ip] = record]
          /\ IF record.count > RATE_CAP
             THEN /\ responses' = responses \cup {Answer(ip, cookie, prompt, 429, FALSE, FALSE)}
                  /\ UNCHANGED <<passed, requests>>
             ELSE /\ passed' = [passed EXCEPT ![ip][serverNow] = @ + 1]
                  /\ IF cookie = "" \/ prompt = ""
                     THEN /\ responses' = responses \cup {Answer(ip, cookie, prompt, 400, FALSE, FALSE)}
                          /\ UNCHANGED requests
                     ELSE IF Whisk = "null"
                     THEN /\ responses' = responses \cup {Answer(ip, cookie, prompt, 500, FALSE, FALSE)}
                          /\ UNCHANGED requests
                     ELSE IF cookie = "MOCK"
                     THEN /\ requests' = Append(requests, Call(ip, cookie, prompt, "mock"))
                          /\ UNCHANGED responses
                     ELSE IF ParseCookies(cookie) = ""
                     THEN /\ responses' = responses \cup {Answer(ip, cookie, prompt, 400, FALSE, FALSE)}
                          /\ UNCHANGED requests
                     ELSE /\ requests' = Append(requests, Call(ip, cookie, prompt, "whisk"))
                          /\ UNCHANGED responses
    /\ UNCHANGED <<Whisk, listening, serverNow>>
    /\ UNCHANGED <<svars, cvars, fvars, tvars, nvars, bvars, yvars, zvars>>

\* the 800 ms timer of the mock mode fires: the handler answers
MockDelayEnds(i) ==
    /\ i \in DOMAIN requests
    /\ requests[i].pc = "mock"
    /\ responses' = responses \cup
           {Answer(requests[i].ip, requests[i].cookie, requests[i].prompt, 200, TRUE, FALSE)}
    /\ requests' = RemoveAt(requests, i)
    /\ UNCHANGED <<Whisk, listening, rateLimits, passed, serverNow>>
    /\ UNCHANGED <<svars, cvars, fvars, tvars, nvars, bvars, yvars, zvars>>

\* the calls of the Whisk library settle: with the image, with an error, or
\* with an error whose message holds 401; clearTimeout, then the answer
WhiskReturns(i, outcome) ==
    /\ i \in DOMAIN requests
    /\ requests[i].pc = "whisk"
    /\ LET status == IF outcome = "image" THEN 200
                     ELSE IF outcome = "401" THEN 401 ELSE 500
       IN responses' = responses \cup
              {Answer(requests[i].ip, requests[i].cookie, requests[i].prompt,
                      status, outcome = "image", TRUE)}
    /\ requests' = RemoveAt(requests, i)
    /\ UNCHANGED <<Whisk, listening, rateLimits, passed, serverNow>>
    /\ UNCHANGED <<svars, cvars, fvars, tvars, nvars, bvars, yvars, zvars>>

\* the 60 s timer of the handler fires: controller.abort(), on a signal
\* that was handed to no call
AbortTimerFires(i) ==
    /\ i \in DOMAIN requests
    /\ requests[i].timer = "armed"
    /\ requests[i].due <= serverNow
    /\ requests' = [requests EXCEPT ![i].timer = "fired"]
    /\ UNCHANGED <<Whisk, listening, rateLimits, passed, responses, serverNow>>
    /\ UNCHANGED <<svars, cvars, fvars, tvars, nvars, bvars, yvars, zvars>>

\* the 5 minute interval of the rate limiter fires: stale records go
RateCleanup ==
    /\ listening
    /\ rateLimits' = [ip \in IPs |->
                         IF rateLimits[ip] # NoRecord /\ serverNow > rateLimits[ip].resetAt
                         THEN NoRecord ELSE rateLimits[ip]]
    /\ UNCHANGED <<Whisk, listening, passed, requests, responses, serverNow>>
    /\ UNCHANGED <<svars, cvars, fvars, tvars, nvars, bvars, yvars, zvars>>

\* time passes on the server, no timer being due
ServerTimePasses ==
    /\ listening
    /\ serverNow + RateTick \in RateTimes
    /\ \A i \in DOMAIN requests : requests[i].timer = "armed" => requests[i].due > serverNow
    /\ serverNow' = serverNow + RateTick
    /\ passed' = [ip \in IPs |-> [t \in RateTimes |->
                     IF serverNow' - t < RateWindowMs THEN passed[ip][t] ELSE 0]]
    /\ UNCHANGED <<Whisk, listening, rateLimits, requests, responses>>
    /\ UNCHANGED <<svars, cvars, fvars, tvars, nvars, bvars, yvars, zvars>>

\* the rate limiter under the requests of a caller and of a bystander, none
\* of them reaching a call
NextRate ==
    \/ \E ok \in BOOLEAN : LoadWhiskApi(ok)
    \/ /\ rateLimits["ip1"].count < RATE_CAP + MaxDenied
       /\ PostGenerate("ip1", "", "a")
    \/ /\ rateLimits["ip2"].count < MaxBystander
       /\ PostGenerate("ip2", "", "a")
    \/ RateCleanup
    \/ ServerTimePasses

SpecRate == Init /\ [][NextRate]_vars

\* the generate endpoint under a few requests of one caller
NextProxy ==
    \/ \E ok \in BOOLEAN : LoadWhiskApi(ok)
    \/ \E cookie \in BodyCookies : \E prompt \in {"", "a"} :
          /\ Len(requests) < MaxRequests
          /\ rateLimits["ip1"].count <= MaxRequests
          /\ PostGenerate("ip1", cookie, prompt)
    \/ \E i \in 1..MaxRequests : MockDelayEnds(i)
    \/ \E i \in 1..MaxRequests : \E outcome \in {"image", "error", "401"} : WhiskReturns(i, outcome)
    \/ \E i \in 1..MaxRequests : AbortTimerFires(i)
    \/ RateCleanup
    \/ ServerTimePasses

SpecProxy == Init /\ [][NextProxy]_vars

\* ------------------------------------------- queue.js, the retention
\* The clock is in days.  A call of an exported function of queue.js; name
\* tells which
RetentionCall(s1, name) ==
    /\ SetStore(s1)
    /\ called' = name
    /\ UNCHANGED <<wvars, rareEvents, calls, ended, cvars, fvars, tvars, wrote,
                   flushResult, bvars, yvars, pvars, zvars>>
    /\ emitted' = <<>>
    /\ UNCHANGED eventLog

RetentionCreateJob ==
    /\ nextId <= MaxJobs
    /\ RetentionCall(CreateJob(Store, nextId, "c1", 1, now), "createJob")
    /\ nextId' = nextId + 1
    /\ createdWith' = Append(createdWith, 1)
    /\ UNCHANGED now

\* updateJob(jobId, {status}) and updateJob(jobId, {status, completedAt})
RetentionUpdateJob(jobId, st, stamped) ==
    /\ JobIndex(jobsCache, jobId) # 0
    /\ RetentionCall(UpdateJob(Store, jobId,
                         IF stamped THEN [status |-> st, completedAt |-> now]
                         ELSE [status |-> st]), "updateJob")
    /\ UNCHANGED <<now, nextId, createdWith>>

RetentionCleanup ==
    /\ RetentionCall(CleanupOldJobs(Store, now), "cleanupOldJobs")
    /\ UNCHANGED <<now, nextId, createdWith>>

\* a day passes
RetentionDayPasses ==
    /\ now < MaxDays
    /\ now' = now + 1
    /\ called' = "none"
    /\ UNCHANGED <<qvars, wvars, nextId, rareEvents, calls, createdWith, ended, cvars,
                   fvars, tvars, wrote, flushResult, bvars, yvars, pvars, zvars>>
    /\ emitted' = <<>>
    /\ UNCHANGED eventLog

\* the job store under jobs of every status and age and the cleanup
NextRetention ==
    \/ RetentionCreateJob
    \/ \E id \in 1..MaxJobs : \E st \in {"processing", "cancelled"} :
          RetentionUpdateJob(id, st, st = "cancelled")
    \/ \E id \in 1..MaxJobs : \E st \in {"completed", "failed"} : \E stamped \in BOOLEAN :
          RetentionUpdateJob(id, st, stamped)
    \/ RetentionCleanup
    \/ RetentionDayPasses

SpecRetention == Init /\ [][NextRetention]_vars

\* ------------------------------------------- worker.js, the adapter pool
\* A cookie is the sequence of its bytes.  Six cookies that differ from
\* their first byte on (named in the order of their first use), and a
\* seventh that is the first one with one more byte at its end
KeyBytes == (KeyChars \div 4) * 3

PoolCookie(k) ==
    IF k <= MAX_INSTANCES + 1 THEN [i \in 1..KeyBytes |-> k]
    ELSE Append([i \in 1..KeyBytes |-> 1], 2)

PoolCookies == {PoolCookie(k) : k \in 1..(MAX_INSTANCES + 2)}

\* Buffer.from(cookie).toString('base64').slice(0, 32): base64 writes three
\* bytes as four characters, so the first 32 characters of the text are the
\* text of the first 24 bytes, and the whole text when the cookie is shorter
Hash(cookie) ==
    SubSeq(cookie, 1, IF Len(cookie) < KeyBytes THEN Len(cookie) ELSE KeyBytes)

\* index of the entry under key h, 0 when whiskInstances.has(h) is false
EntryOf(insts, h) ==
    IF \E i \in DOMAIN insts : insts[i].hash = h
    THEN CHOOSE i \in DOMAIN insts : insts[i].hash = h
    ELSE 0

\* index of the entry that holds the Whisk object id, 0 when it was evicted
HolderOf(insts, id) ==
    IF \E i \in DOMAIN insts : insts[i].whisk.id = id
    THEN CHOOSE i \in DOMAIN insts : insts[i].whisk.id = id
    ELSE 0

\* a slip that evicts the entry created first
FirstCreated(insts) ==
    CHOOSE i \in DOMAIN insts : \A k \in DOMAIN insts : i <= k

\* the head of the entries sorted by lastUsed (a stable sort of the Map's
\* insertion order)
LeastRecentlyUsed(insts) ==
    CHOOSE i \in DOMAIN insts :
        \A k \in DOMAIN insts :
            \/ insts[i].lastUsed < insts[k].lastUsed
            \/ insts[i].lastUsed = insts[k].lastUsed /\ i <= k

\* "Cleanup if too many"
RECURSIVE Evict(_)
Evict(insts) ==
    IF Len(insts) > MAX_INSTANCES
    THEN Evict(RemoveAt(insts, LeastRecentlyUsed(insts)))
    ELSE insts

\* whiskInstances after getWhiskInstance(cookie) at time t, id being the
\* Whisk object a new entry would get; served and made count the calls and
\* the images of the entry's project
GetWhiskInstance(insts, cookie, t, id) ==
    LET h == Hash(cookie)
        idx == EntryOf(insts, h)
    IN IF idx = 0
       THEN Evict(Append(insts, [hash |-> h,
                                 whisk |-> [id |-> id, cookie |-> cookie],
                                 project |-> 0, lastUsed |-> t,
                                 generationCount |-> 0, served |-> 0, made |-> 0]))
       ELSE [insts EXCEPT ![idx].lastUsed = t]

\* a slip that makes a project only when the entry has none
NeedsProjectWhenNone(e) ==
    e.project = 0

\* "Refresh project if null or after N generations"
NeedsProject(e) ==
    e.project = 0 \/ e.generationCount >= PROJECT_REFRESH_EVERY

\* the messages an error of the library may carry
Messages == {"project", "500", "ECONNRESET", "other"}

StaleProject(msg) ==
    msg \in {"project", "404", "500", "ECONNRESET", "socket"}

\* instance.project.generateImage is called for the job with this cookie
GenerateCalled(insts, i, cookie) ==
    [insts |-> [insts EXCEPT ![i].served = @ + 1],
     call |-> [pc |-> "gen", cookie |-> cookie, inst |-> insts[i].whisk.id,
               project |-> insts[i].project],
     use |-> [job |-> cookie, inst |-> insts[i].whisk.id,
              with |-> insts[i].whisk.cookie, project |-> insts[i].project]]

\* the catch block of processPrompt, as far as the pool goes
ProjectCleared(insts, cookie, msg) ==
    LET idx == EntryOf(insts, Hash(cookie)) IN
    IF idx # 0 /\ StaleProject(msg)
    THEN [insts EXCEPT ![idx].project = 0, ![idx].generationCount = 0,
                       ![idx].served = 0, ![idx].made = 0]
    ELSE insts

PoolFrame ==
    UNCHANGED <<svars, cvars, fvars, tvars, nvars, bvars, yvars, pvars, animations>>

\* processPrompt of a job with this cookie, from getWhiskInstance to its
\* first await; Date.now() has moved on since the prompt before
PromptStarts(cookie) ==
    /\ poolCall.pc = "idle"
    /\ poolNow' = poolNow + 1
    /\ LET insts == GetWhiskInstance(whiskInstances, cookie, poolNow', nextInstance)
           i == EntryOf(insts, Hash(cookie))
       IN /\ nextInstance' = IF insts[i].whisk.id = nextInstance
                             THEN nextInstance + 1 ELSE nextInstance
          /\ IF NeedsProject(insts[i])
             THEN /\ whiskInstances' = insts
                  /\ poolCall' = [pc |-> "project", cookie |-> cookie,
                                  inst |-> insts[i].whisk.id, project |-> 0]
                  /\ UNCHANGED uses
             ELSE LET g == GenerateCalled(insts, i, cookie) IN
                  /\ whiskInstances' = g.insts
                  /\ poolCall' = g.call
                  /\ uses' = uses \cup {g.use}
    /\ UNCHANGED nextProject
    /\ PoolFrame

\* instance.whisk.newProject settles
ProjectDone(ok, msg) ==
    /\ poolCall.pc = "project"
    /\ LET i == HolderOf(whiskInstances, poolCall.inst) IN
       IF ok
       THEN LET made == [whiskInstances EXCEPT ![i].project = nextProject,
                                               ![i].generationCount = 0,
                                               ![i].served = 0, ![i].made = 0]
                g == GenerateCalled(made, i, poolCall.cookie)
            IN /\ whiskInstances' = g.insts
               /\ poolCall' = g.call
               /\ uses' = uses \cup {g.use}
               /\ nextProject' = nextProject + 1
       ELSE /\ whiskInstances' = ProjectCleared([whiskInstances EXCEPT ![i].project = 0,
                                                                       ![i].served = 0,
                                                                       ![i].made = 0],
                                                poolCall.cookie, msg)
            /\ poolCall' = NoCall
            /\ UNCHANGED <<uses, nextProject>>
    /\ UNCHANGED <<poolNow, nextInstance>>
    /\ PoolFrame

\* instance.project.generateImage settles
GenerateDone(ok, msg) ==
    /\ poolCall.pc = "gen"
    /\ LET i == HolderOf(whiskInstances, poolCall.inst) IN
       whiskInstances' = IF ok
                         THEN [whiskInstances EXCEPT ![i].generationCount = @ + 1,
                                                     ![i].made = @ + 1]
                         ELSE ProjectCleared(whiskInstances, poolCall.cookie, msg)
    /\ poolCall' = NoCall
    /\ UNCHANGED <<poolNow, nextInstance, nextProject, uses>>
    /\ PoolFrame

\* the cookies the jobs so far came with
CookiesUsed == {u.job : u \in uses}

\* the pool under jobs of many cookies, every call succeeding
NextPool ==
    \/ \E k \in 1..(MAX_INSTANCES + 2) :
          /\ poolNow < MaxPoolCalls
          /\ k <= MAX_INSTANCES + 1 =>
                \A m \in 1..(k - 1) : PoolCookie(m) \in CookiesUsed
          /\ PromptStarts(PoolCookie(k))
    \/ ProjectDone(TRUE, "other")
    \/ GenerateDone(TRUE, "other")

SpecPool == Init /\ [][NextPool]_vars

\* the pool under many prompts of one cookie, calls succeeding or failing
NextRefresh ==
    \/ /\ poolNow < MaxRefreshCalls
       /\ PromptStarts(PoolCookie(1))
    \/ \E ok \in BOOLEAN : \E msg \in Messages : ProjectDone(ok, msg)
    \/ \E ok \in BOOLEAN : \E msg \in Messages : GenerateDone(ok, msg)

SpecRefresh == Init /\ [][NextRefresh]_vars

\* ------------------------------------------- server.js, POST /api/animate
\* the server's clock moves in steps of half the animate timeout
AnimateTick == AnimateMs \div 2

\* a call of the handler: where it waits, its 150 s timer, the answers sent
Animation(pc, timer, sent) ==
    [pc |-> pc, timer |-> timer,
     due |-> IF timer = "armed" THEN serverNow + AnimateMs ELSE NoTime,
     sent |-> sent]

\* a slip that answers without looking at res.headersSent
RespondAlways(a, status) ==
    [a EXCEPT !.sent = Append(@, status)]

\* if (!res.headersSent) res.status(status).json(...)
Respond(a, status) ==
    IF a.sent # <<>> THEN a
    ELSE [a EXCEPT !.sent = Append(@, status)]

AnimateFrame ==
    UNCHANGED <<svars, cvars, fvars, tvars, nvars, bvars, yvars, ivars>>

\* POST /api/animate up to its first await
PostAnimate(cookie, image, script) ==
    /\ listening
    /\ animations' = Append(animations,
          IF cookie = "" \/ image = "" \/ script = ""
          THEN Animation("done", "none", <<400>>)
          ELSE IF Whisk = "null"
          THEN Animation("done", "none", <<500>>)
          ELSE IF ParseCookies(cookie) = ""
          THEN Animation("done", "none", <<400>>)
          ELSE Animation("newProject", "armed", <<>>))
    /\ UNCHANGED pvars
    /\ AnimateFrame

\* whisk.newProject or media.animate settles: with its result, with an
\* error, or with an error whose message holds 401
AdapterSettles(i, outcome) ==
    /\ i \in DOMAIN animations
    /\ animations[i].pc \in {"newProject", "animate"}
    /\ LET a == animations[i]
           cleared == [a EXCEPT !.pc = "done",
                                !.timer = IF @ = "armed" THEN "cleared" ELSE @]
       IN animations' = [animations EXCEPT ![i] =
             IF outcome = "ok" /\ a.pc = "newProject" THEN [a EXCEPT !.pc = "animate"]
             ELSE IF outcome = "ok" THEN Respond(cleared, 200)
             ELSE IF outcome = "401" THEN Respond(cleared, 401)
             ELSE Respond(cleared, 500)]
    /\ UNCHANGED pvars
    /\ AnimateFrame

\* the 150 s timer of the handler fires
AnimateTimerFires(i) ==
    /\ i \in DOMAIN animations
    /\ animations[i].timer = "armed"
    /\ animations[i].due <= serverNow
    /\ animations' = [animations EXCEPT ![i] = Respond([@ EXCEPT !.timer = "fired"], 504)]
    /\ UNCHANGED pvars
    /\ AnimateFrame

\* time passes on the server, no animate timer being due
AnimateTimePasses ==
    /\ listening
    /\ serverNow < MaxAnimateTicks * AnimateTick
    /\ \A i \in DOMAIN animations :
          animations[i].timer = "armed" => animations[i].due > serverNow
    /\ serverNow' = serverNow + AnimateTick
    /\ UNCHANGED <<Whisk, listening, rateLimits, passed, requests, responses>>
    /\ UNCHANGED animations
    /\ AnimateFrame

\* the animate endpoint under a few requests
NextAnimate ==
    \/ \E ok \in BOOLEAN : LoadWhiskApi(ok)
    \/ \E cookie \in {"", "c1", "[]"} : \E image \in {"", "img"} : \E script \in {"", "s"} :
          /\ Len(animations) < MaxRequests
          /\ PostAnimate(cookie, image, script)
    \/ \E i \in 1..MaxRequests : \E outcome \in {"ok", "error", "401"} : AdapterSettles(i, outcome)
    \/ \E i \in 1..MaxRequests : AnimateTimerFires(i)
    \/ AnimateTimePasses

SpecAnimate == Init /\ [][NextAnimate]_vars

TypeOK ==
    /\ isDirty \in BOOLEAN
    /\ Len(passes) <= MaxChains
    /\ Len(loops) <= MaxLoops

\* ===================================================================== claims

Range(seq) ==
    {seq[i] : i \in DOMAIN seq}

Terminal ==
    {"completed", "failed", "cancelled"}

\* the step of start() that runs recoverInterruptedJobs
RecoveryStep ==
    ~starting /\ starting'

\* the generation call made by a step, when it makes one
MakesCall ==
    Len(calls') = Len(calls) + 1

NewCall ==
    calls'[Len(calls')]

\* C1: in every reachable state every job of the store has
\* completedCount + failedCount <= totalCount, and its totalCount, like the
\* number of its prompts, is the number of prompts it was created with.
C1_CountersWithinTotal ==
    \A i \in DOMAIN jobsCache :
        LET j == jobsCache[i] IN
        /\ j.completedCount + j.failedCount <= j.totalCount
        /\ j.id \in DOMAIN createdWith
        /\ j.totalCount = createdWith[j.id]
        /\ Len(j.prompts) = createdWith[j.id]

\* C1, its case: a job whose prompts have all ended, some completed and some
\* in error, so that the two counters together reach totalCount
C1_CountersReachTotal ==
    \E i \in DOMAIN jobsCache :
        /\ jobsCache[i].completedCount >= 1
        /\ jobsCache[i].failedCount >= 1
        /\ jobsCache[i].completedCount + jobsCache[i].failedCount
              = jobsCache[i].totalCount

\* C2: at most one processing pass exists at any time, and so at most one
\* generation call is in progress, whatever ticks, start() and stop() do.
C2_SinglePass ==
    /\ Len(passes) <= 1
    /\ Cardinality({k \in DOMAIN passes : passes[k].pc = "gen"}) <= 1

\* C2, its case: a workerLoop call found the lock taken; it started nothing
\* and only scheduled the next tick, which is now due while the pass still runs
C2_TickSkippedDuringPass ==
    /\ isRunning
    /\ Len(passes) = 1
    /\ passes[1].pc = "gen"
    /\ tickTimers >= 1

\* C3: in the browser at most one processQueue drain loop is active and at
\* most one generation request is in flight.
C3_SingleDrainLoop ==
    /\ Len(loops) <= 1
    /\ Cardinality({l \in DOMAIN loops : loops[l].pc = "fetch"}) <= 1

\* a run of AbortThreshold prompts in error, next to each other
FailedInARow(prompts) ==
    \E a \in DOMAIN prompts :
        /\ a + AbortThreshold - 1 \in DOMAIN prompts
        /\ \A k \in a..(a + AbortThreshold - 1) : prompts[k].status = "error"

\* C4: a job in which 5 prompts in a row failed ends failed: once the worker
\* has let go of it, its status is failed.
C4_FiveFailuresFailJob ==
    \A i \in DOMAIN jobsCache :
        (/\ FailedInARow(jobsCache[i].prompts)
         /\ \A k \in DOMAIN passes : passes[k].job # jobsCache[i].id)
        => jobsCache[i].status = "failed"

\* what the recovery may do to a prompt: processing becomes pending
PromptRecovered(a, b) ==
    /\ b.status = (IF a.status = "processing" THEN "pending" ELSE a.status)
    /\ b.imageUrl = a.imageUrl
    /\ b.error = a.error

\* the flush of the recovery: the file holds the cache and no write is due
RecoveryFlushed ==
    recovered' > 0 =>
        /\ disk' = [exists |-> TRUE, jobs |-> jobsCache']
        /\ ~isDirty'
        /\ ~saveTimer'

\* C5 as stated: the recovery resets every processing job and prompt to
\* pending, flushes the store, and alters no other field of any job or prompt.
C5_RecoveryAltersStatusOnly ==
    [][RecoveryStep =>
        /\ DOMAIN jobsCache' = DOMAIN jobsCache
        /\ \A i \in DOMAIN jobsCache :
              LET a == jobsCache[i]
                  b == jobsCache'[i]
              IN /\ b.status = (IF a.status = "processing" THEN "pending" ELSE a.status)
                 /\ \A f \in DOMAIN a \ {"status", "prompts"} : b[f] = a[f]
                 /\ DOMAIN b.prompts = DOMAIN a.prompts
                 /\ \A k \in DOMAIN a.prompts : PromptRecovered(a.prompts[k], b.prompts[k])
        /\ RecoveryFlushed]_vars

\* C5, amended: the recovery resets every processing job and prompt to
\* pending, also clears startedAt of every job it resets, alters no other
\* field, and flushes the store when it has reset something.
C5_RecoveryAltersStatusAndStart ==
    [][RecoveryStep =>
        /\ DOMAIN jobsCache' = DOMAIN jobsCache
        /\ \A i \in DOMAIN jobsCache :
              LET a == jobsCache[i]
                  b == jobsCache'[i]
              IN /\ b.status = (IF a.status = "processing" THEN "pending" ELSE a.status)
                 /\ b.startedAt = (IF a.status = "processing" THEN NoTime ELSE a.startedAt)
                 /\ \A f \in DOMAIN a \ {"status", "startedAt", "prompts"} : b[f] = a[f]
                 /\ DOMAIN b.prompts = DOMAIN a.prompts
                 /\ \A k \in DOMAIN a.prompts : PromptRecovered(a.prompts[k], b.prompts[k])
        /\ RecoveryFlushed
        /\ recovered' = 0 => UNCHANGED qvars]_vars

\* C5, its case: start() has just recovered a job together with a prompt of
\* it, and the file already holds the result
C5_JobAndPromptRecovered ==
    /\ starting
    /\ recovered >= 2
    /\ disk.jobs = jobsCache
    /\ \E i \in DOMAIN jobsCache :
          /\ jobsCache[i].status = "pending"
          /\ jobsCache[i].startedAt = NoTime
          /\ jobsCache[i].completedCount + jobsCache[i].failedCount >= 1

\* the call a step makes is for the first pending prompt of its job
CallsFirstPending ==
    LET idx == JobIndex(jobsCache, NewCall[1])
        p == NewCall[2]
    IN /\ idx # 0
       /\ p \in DOMAIN jobsCache[idx].prompts
       /\ jobsCache[idx].prompts[p].status = "pending"
       /\ \A k \in 1..(p - 1) : jobsCache[idx].prompts[k].status # "pending"

\* C6 as stated: every generation call is for the first pending prompt of its
\* job, and never for a prompt that has ended completed or error before
\* (ended holds every prompt that ever ended, whatever became of the process).
C6_EndedNeverCalledAgain ==
    [][MakesCall => CallsFirstPending /\ NewCall \notin ended]_vars

\* C6, amended: every generation call is for the first prompt stored as
\* pending in its job, so never for one stored as completed or error, and
\* within one life of the process the calls of a job go up in prompt order,
\* each prompt at most once (calls holds the calls of the running process).
C6_InOrderOncePerProcess ==
    [][MakesCall =>
        /\ CallsFirstPending
        /\ \A m \in DOMAIN calls : calls[m][1] = NewCall[1] => calls[m][2] < NewCall[2]]_vars

\* C6, its case: the worker has called the first prompt of a job, which ended
\* in error, and then the second, leaving the failed one alone
C6_SecondPromptAfterFailedFirst ==
    \E i \in DOMAIN jobsCache :
        /\ Len(jobsCache[i].prompts) >= 2
        /\ jobsCache[i].prompts[1].status = "error"
        /\ jobsCache[i].prompts[2].status = "processing"
        /\ <<jobsCache[i].id, 1>> \in Range(calls)
        /\ <<jobsCache[i].id, 2>> \in Range(calls)

\* C7: at most one job is processing at any time, and the generation calls go
\* job by job in insertion order (ids are handed out in insertion order), so
\* that no call of one job falls between two calls of another.
C7_OneJobAtATime ==
    /\ GetActiveCount(jobsCache) <= 1
    /\ \A m, n \in DOMAIN calls : m < n => calls[m][1] <= calls[n][1]

\* C8: once a job is cancelled, no step starts a further prompt of it,
\* changes its status, or broadcasts job-completed for it.
C8_CancelledIsLeftAlone ==
    [][\A i \in DOMAIN jobsCache :
          jobsCache[i].status = "cancelled" =>
              LET id == jobsCache[i].id
                  k == JobIndex(jobsCache', id)
              IN /\ k # 0
                 /\ jobsCache'[k].status = "cancelled"
                 /\ ~(MakesCall /\ NewCall[1] = id)
                 /\ \A e \in Range(emitted') : ~(e[1] = "job-completed" /\ e[2] = id)]_vars

\* C8, its case: a job was cancelled while the worker was calling its first
\* prompt; the call has finished, the worker has let go of the job, and the
\* second prompt is still pending under the cancelled status
C8_CancelledMidJob ==
    /\ isRunning
    /\ passes = <<>>
    /\ \E i \in DOMAIN jobsCache :
          /\ jobsCache[i].status = "cancelled"
          /\ <<jobsCache[i].id, 1>> \in Range(calls)
          /\ Len(jobsCache[i].prompts) >= 2
          /\ jobsCache[i].prompts[1].status \in {"completed", "error"}
          /\ jobsCache[i].prompts[2].status = "pending"

\* how far along a status is
Rank(st) ==
    IF st = "pending" THEN 0 ELSE IF st = "processing" THEN 1 ELSE 2

\* C9: a job's status only moves forward, pending -> processing -> completed,
\* failed or cancelled; once it is one of the last three no step changes it;
\* the only move back is processing -> pending in the recovery of start().
C9_StatusMovesForward ==
    [][\A i \in DOMAIN jobsCache : \A k \in DOMAIN jobsCache' :
          jobsCache'[k].id = jobsCache[i].id =>
              LET a == jobsCache[i].status
                  b == jobsCache'[k].status
              IN /\ a \in Terminal => b = a
                 /\ Rank(b) < Rank(a) => RecoveryStep /\ a = "processing" /\ b = "pending"]_vars

\* C10: while the worker runs (so the startup recovery is done) and no pass
\* is running, no job has status processing.
C10_ProcessingOnlyWhileHeld ==
    (isRunning /\ ~starting /\ passes = <<>>) => GetActiveCount(jobsCache) = 0

\* a file that JSON.parse accepts
Parsable(file, torn) ==
    file.exists /\ ~torn

\* the step ends with the process started again and the files loaded
ProcessRestarts ==
    \/ flushes' # flushes /\ flushResult' = "crashed"
    \/ rareEvents' # rareEvents
    \/ "lost" \in faults' \ faults

\* C14: whenever the store is loaded, the loader returns the primary file's
\* jobs when that file parses, else the backup's jobs when the backup parses
\* (the primary being missing or unparsable), and the empty list only when
\* neither file parses.
C14_LoaderFallsBackToBackup ==
    [][ProcessRestarts =>
          jobsCache' = IF Parsable(disk', diskTorn') THEN disk'.jobs
                       ELSE IF Parsable(bak', bakTorn') THEN bak'.jobs
                       ELSE <<>>]_vars

\* C15: under flushes, crashes in the middle of a flush and reloads (no write
\* error, no file removed from outside), once one flush has completed at least
\* one of the primary file and the .bak file is a complete snapshot, so that
\* the loader never comes back with the empty store.
C15_OneFileAlwaysComplete ==
    (Len(flushed) >= 1 /\ faults = {}) =>
        Parsable(disk, diskTorn) \/ Parsable(bak, bakTorn)

\* the step made a saveToDisk call whose write threw
WriteFailed ==
    flushes' # flushes /\ flushResult' = "failed"

\* C16: a saveToDisk call whose write fails leaves the dirty flag set and the
\* in-memory list in place: every job held before the call is still held,
\* with its prompts, and the call's own change of the list is kept.
C16_FailedWriteKeepsCacheDirty ==
    [][WriteFailed =>
          /\ isDirty'
          /\ Len(jobsCache') >= Len(jobsCache)
          /\ \A i \in DOMAIN jobsCache :
                /\ jobsCache'[i].id = jobsCache[i].id
                /\ jobsCache'[i].prompts = jobsCache[i].prompts]_vars

\* C16, its case: a write failed, and a later flush has written the list
C16_FailedWriteRetried ==
    /\ "write" \in faults
    /\ flushResult = "ok"
    /\ ~isDirty
    /\ Parsable(disk, diskTorn)
    /\ disk.jobs = jobsCache
    /\ Len(jobsCache) >= 1

\* the step is the debounce timer firing
DebounceFires ==
    called' = "timer" /\ saveTimer /\ ~saveTimer'

\* C11 as stated: the debounce timer fires 2 seconds after the last call of
\* the burst that armed it, and the file is written at that instant (by the
\* timer, or by the 30 second interval when it is due at the same instant):
\* one write per burst, at the end of the burst's window.
C11_BurstEndsInOneWrite ==
    [][DebounceFires =>
          /\ clock = lastCallAt + DebounceMs
          /\ wrote' = "debounce" \/ autoDue - AutosaveMs = clock]_vars

\* C11, amended: the debounce timer fires 2 seconds after the last call of
\* the burst that armed it; no call of the burst writes; the timer writes
\* exactly when the store is still dirty, and it is clean only when the
\* 30 second interval has flushed since that last call.
C11_BurstEndsInAtMostOneWrite ==
    [][/\ DebounceFires =>
             /\ clock = lastCallAt + DebounceMs
             /\ (wrote' = "debounce") = isDirty
             /\ ~isDirty => autoDue - AutosaveMs >= lastCallAt
       /\ called' = "updatePrompt" => wrote' = "none" /\ disk' = disk]_vars

\* C11, its case: a burst of several calls has ended in the timer's write
C11_BurstWritten ==
    /\ called = "timer"
    /\ wrote = "debounce"
    /\ burst >= MaxBurst
    /\ clock = lastCallAt + DebounceMs
    /\ disk.jobs = jobsCache

\* C12: createJob and updateJob with a status leave the file holding the
\* list, the store clean and no debounce timer pending, whenever they are
\* called; updateJob without a status and updatePrompt leave the file as it
\* was and the debounce timer pending, due 2 seconds later.
C12_StatusWritesAtOnce ==
    [][/\ called' \in {"createJob", "updateJob status"} =>
             /\ wrote' = "now"
             /\ disk' = [exists |-> TRUE, jobs |-> jobsCache']
             /\ ~isDirty'
             /\ ~saveTimer'
       /\ called' \in {"updateJob", "updatePrompt"} =>
             /\ wrote' = "none"
             /\ disk' = disk
             /\ isDirty'
             /\ saveTimer'
             /\ saveDue' = clock + DebounceMs]_vars

\* C12, its case: a status update has written the file less than 2 seconds
\* after an updatePrompt, cancelling the timer that call had armed
C12_WrittenInsideWindow ==
    /\ called = "updateJob status"
    /\ wrote = "now"
    /\ ~saveTimer
    /\ lastCallAt # NoTime
    /\ clock - lastCallAt < DebounceMs
    /\ disk.jobs = jobsCache

\* C13: no change stays off the disk for more than 30 seconds: the oldest
\* change not yet written is at most 30 seconds old, and a clean store is on
\* the disk.
C13_ChangeOnDiskWithin30s ==
    /\ isDirty = (dirtySince # NoTime)
    /\ isDirty => clock - dirtySince <= AutosaveMs
    /\ (~isDirty /\ jobsCache # <<>>) => disk = [exists |-> TRUE, jobs |-> jobsCache]

\* C13, its case: updates have kept arriving for 30 seconds, the debounce
\* timer has been reset every time and is pending, and the change made
\* 30 seconds ago is still not written: the interval is due
C13_DirtyForWholeInterval ==
    /\ isDirty
    /\ clock - dirtySince = AutosaveMs
    /\ saveTimer
    /\ burst >= MaxBurst
    /\ clock - lastCallAt < DebounceMs
    /\ autoDue = clock

\* C17: whenever a delay is taken it is min(base * 2^n, cap) for the streak n
\* at that moment (4000 and 60000 ms in the worker, 5000 and 32000 ms in the
\* client), it is base when n = 0, and it does not go down when n goes up.
C17_DelayIsCappedDoubling ==
    [][/\ workerDelay' # 0 =>
             /\ workerDelay' = Min(BASE_DELAY * Pow2(consecutiveErrors'), MAX_BACKOFF)
             /\ consecutiveErrors' = 0 => workerDelay' = BASE_DELAY
             /\ consecutiveErrors' >= consecutiveErrors => workerDelay' >= workerDelay
       /\ clientDelay' # 0 =>
             /\ clientDelay' = Min(CLIENT_BASE_DELAY * Pow2(storeConsecutiveErrors'),
                                   CLIENT_MAX_BACKOFF)
             /\ storeConsecutiveErrors' = 0 => clientDelay' = CLIENT_BASE_DELAY
             /\ storeConsecutiveErrors' >= storeConsecutiveErrors
                   => clientDelay' >= clientDelay]_vars

\* C17, its case: both streaks have grown until both delays sit at their caps
C17_BothDelaysCapped ==
    /\ consecutiveErrors = MaxStreak
    /\ storeConsecutiveErrors = MaxStreak
    /\ workerDelay = MAX_BACKOFF
    /\ clientDelay = CLIENT_MAX_BACKOFF

\* C18, the part of it that no later step can make good: a job created with
\* the credential MOCK is never marked failed and none of its prompts ends
\* in error (a failed job is never drained again, so such a job can no
\* longer end completed with completedCount = n and failedCount = 0).
C18_MockJobNeverFails ==
    \A i \in DOMAIN jobsCache :
        jobsCache[i].cookie = "MOCK" =>
            /\ jobsCache[i].status # "failed"
            /\ jobsCache[i].failedCount = 0

\* the job has prompts and all of them have ended
AllEnded(j) ==
    /\ Len(j.prompts) >= 1
    /\ \A k \in DOMAIN j.prompts : j.prompts[k].status \in {"completed", "error"}

\* C19: a step leaves a pending job without a pending prompt (all its prompts
\* have ended) exactly as it is, unless it cancels it, and emits no event for
\* it: the drain has nothing to do on such a job.
C19_DrainOfDrainedJobIsNoOp ==
    [][\A i \in DOMAIN jobsCache :
          LET j == jobsCache[i]
              k == JobIndex(jobsCache', j.id)
          IN (/\ j.status = "pending"
              /\ AllEnded(j)
              /\ k # 0
              /\ jobsCache'[k].status # "cancelled")
             => /\ jobsCache'[k] = j
                /\ \A e \in Range(emitted') : e[2] # j.id]_vars

\* C20: in the browser completedCount + failedCount <= totalCount in every
\* reachable state, whatever the order of starts, answers, deletions,
\* regenerations, retries, cancellations and clears.
C20_ClientCountersWithinTotal ==
    storeCompletedCount + storeFailedCount <= storeTotalCount

\* the number of requests the drain loops have in flight
FetchCount(ls) ==
    Cardinality({l \in DOMAIN ls : ls[l].pc = "fetch"})

\* this step makes a drain loop send a generation request
StartsRequest ==
    FetchCount(loops') > FetchCount(loops)

\* the item that request is for
RequestedId ==
    loops'[Len(loops')].job

\* the request is for the first pending item of the list: the item is now
\* processing and no item before it is pending
FirstPendingRequested ==
    \E i \in DOMAIN storeJobs' :
        /\ storeJobs'[i].id = RequestedId
        /\ storeJobs'[i].status = "processing"
        /\ \A k \in 1..(i - 1) : storeJobs'[k].status # "pending"

\* the status a pending item has after a step: processing when the step sent
\* its request, pending otherwise
PendingOrPicked(id) ==
    IF StartsRequest /\ RequestedId = id THEN "processing" ELSE "pending"

\* what retryErrors does to the list and the counters
RetryResets ==
    /\ Len(storeJobs') = Len(storeJobs)
    /\ \A i \in DOMAIN storeJobs :
          LET a == storeJobs[i]
              b == storeJobs'[i]
          IN /\ b.id = a.id
             /\ a.status = "error" =>
                   b.status = PendingOrPicked(a.id) /\ b.error = NoValue
             /\ a.status = "pending" =>
                   b.status = PendingOrPicked(a.id) /\ b.error = a.error
             /\ a.status \in {"completed", "processing"} => b = a
    /\ storeFailedCount' = 0
    /\ storeConsecutiveErrors' = 0
    /\ storeCompletedCount' = storeCompletedCount

CancelKeepsItems ==
    /\ ~storeIsRunning'
    /\ ~storeIsPaused'
    /\ Len(storeJobs') = Len(storeJobs)
    /\ \A i \in DOMAIN storeJobs :
          LET a == storeJobs[i]
              b == storeJobs'[i]
          IN /\ b.id = a.id
             /\ b.error = a.error
             /\ b.status = (IF a.status = "processing" THEN "pending" ELSE a.status)

\* the queue is started: Start, or Retry errors
StartsQueue ==
    \/ \E n \in 1..MaxClientJobs : StartGeneration(n)
    \/ RetryErrors

CancelledPartWay ==
    /\ ~storeIsRunning
    /\ \E i \in DOMAIN storeJobs : storeJobs[i].status = "completed"
    /\ \E i \in DOMAIN storeJobs : storeJobs[i].status = "pending"

\* C23: a start after a cancel resumes the same queue: every item of the
\* list is still in it, the completed ones still completed, the completed
\* counter and the total are kept, and the request sent is for an item that
\* was pending.
C23_StartResumesCancelledQueue ==
    [][(CancelledPartWay /\ \E n \in 1..MaxClientJobs : StartGeneration(n)) =>
          /\ \A i \in DOMAIN storeJobs : \E k \in DOMAIN storeJobs' :
                /\ storeJobs'[k].id = storeJobs[i].id
                /\ storeJobs[i].status = "completed" => storeJobs'[k] = storeJobs[i]
          /\ storeCompletedCount' = storeCompletedCount
          /\ storeTotalCount' = storeTotalCount
          /\ StartsRequest =>
                \E i \in DOMAIN storeJobs :
                    storeJobs[i].id = RequestedId /\ storeJobs[i].status = "pending"]_vars

\* the three counters of the progress display
Counters ==
    <<storeCompletedCount, storeFailedCount, storeTotalCount>>

\* C24: the pause click changes no item and no counter and sends nothing;
\* from a paused queue a drain loop sends a request only at the resume click
\* (or at a new start), the request in flight being free to finish; the
\* resume click zeroes the failure streak and, when an item is pending, sends
\* the request for the first pending item.
C24_PauseHoldsResumeContinues ==
    [][/\ (PauseGeneration /\ ~storeIsPaused) =>
             /\ storeIsPaused'
             /\ storeJobs' = storeJobs
             /\ Counters' = Counters
             /\ loops' = loops
       /\ (storeIsPaused /\ StartsRequest) =>
             PauseGeneration \/ \E n \in 1..MaxClientJobs : StartGeneration(n)
       /\ StartsRequest => ~storeIsPaused'
       /\ (PauseGeneration /\ storeIsPaused) =>
             /\ storeConsecutiveErrors' = 0
             /\ ~storeIsPaused'
             /\ (\E i \in DOMAIN storeJobs : storeJobs[i].status = "pending") =>
                   StartsRequest /\ FirstPendingRequested]_vars

\* C24, its case: the first of two items failed, which put the streak at 1;
\* the queue was paused and resumed, and now the second item is requested
\* with the streak back at zero
C24_ResumedAfterFailure ==
    /\ storeIsRunning
    /\ ~storeIsPaused
    /\ storeConsecutiveErrors = 0
    /\ storeFailedCount = 1
    /\ nextJobId = 3
    /\ Len(storeJobs) = 2
    /\ storeJobs[1].status = "error"
    /\ storeJobs[2].status = "processing"
    /\ loops = <<[job |-> 2, pc |-> "fetch"]>>
    /\ asyncs = <<>>
    /\ clicks = 3

\* the queue is paused by exhaustion: running, paused, the streak at the
\* threshold and an item still pending, the cookie being valid and Start
\* the only click so far, so that processQueue set the pause
ExhaustionPaused ==
    /\ storeCookieValid
    /\ clicks = 1
    /\ storeIsRunning
    /\ storeIsPaused
    /\ storeConsecutiveErrors >= PauseThreshold
    /\ \E i \in DOMAIN storeJobs : storeJobs[i].status = "pending"

\* C25: with the streak at 5 and an item pending the loop pauses the queue
\* instead of sending a request; a paused queue sends nothing until the
\* operator acts; and each of the two operator actions, resume and retry
\* errors, makes the draining resume: it sends the request for the first
\* pending item.
C25_ExhaustionPauseLiftedByEitherAction ==
    [][/\ StartsRequest => storeConsecutiveErrors' < PauseThreshold
       /\ \A l \in 1..MaxLoops :
             (/\ SleepEnds(l)
              /\ storeIsRunning /\ ~storeIsPaused
              /\ storeConsecutiveErrors >= PauseThreshold
              /\ \E i \in DOMAIN storeJobs : storeJobs[i].status = "pending")
             => storeIsPaused' /\ ~StartsRequest
       /\ (storeIsPaused /\ StartsRequest) => PauseGeneration \/ RetryErrors
       /\ (ExhaustionPaused /\ (PauseGeneration \/ RetryErrors)) =>
             StartsRequest /\ FirstPendingRequested]_vars

\* C26: a page load restores the list the snapshot was taken from: the same
\* number of items in the same order, each with its id, prompt and error,
\* and with its status except that processing has become pending, so that
\* no restored item is processing; and the snapshot holds nothing but id,
\* prompt, status and error of each item, never a blob.
C26_RestoreGivesBackSavedList ==
    [][/\ RestoreQueueState =>
             /\ Len(storeJobs') = Len(savedFrom)
             /\ \A i \in DOMAIN savedFrom :
                   LET a == savedFrom[i]
                       b == storeJobs'[i]
                   IN /\ b.id = a.id
                      /\ b.prompt = a.prompt
                      /\ b.error = a.error
                      /\ b.status = (IF a.status = "processing" THEN "pending"
                                     ELSE a.status)
             /\ \A i \in DOMAIN storeJobs' : storeJobs'[i].status # "processing"
       /\ localStorage' # <<>> =>
             \A i \in DOMAIN localStorage'[1].jobs :
                 LET m == localStorage'[1].jobs[i] IN
                 /\ DOMAIN m \subseteq {"id", "prompt", "status", "error"}
                 /\ \A f \in DOMAIN m \ {"id"} : m[f] # "blob"]_vars

\* C26, its case: a list saved with a processing item and a completed item
\* holding a blob has been restored: the first is pending with its prompt,
\* the second is completed without its blob yet
C26_RestoredWithDowngrade ==
    /\ localStorage # <<>>
    /\ Len(savedFrom) = 2
    /\ savedFrom[1].status = "processing"
    /\ savedFrom[2].status = "completed"
    /\ savedFrom[2].blobUrl = "blob"
    /\ Len(storeJobs) = 2
    /\ storeJobs[1].status = "pending"
    /\ storeJobs[1].prompt = savedFrom[1].prompt
    /\ storeJobs[2].status = "completed"
    /\ storeJobs[2].blobUrl = NoValue
    /\ \E a \in DOMAIN asyncs : asyncs[a].op = "restore"

\* the list without the item with this id
Without(jobs, id) ==
    SelectSeq(jobs, LAMBDA j : j.id # id)

\* C27: when deleteJob(id) finishes, the list is the list it found less the
\* item with that id, every other item staying in place, and, that item
\* being in the list, totalCount is one less and so is the counter of the
\* status the item has (completedCount for completed, failedCount for
\* error), the other counter being kept; this whatever happened while the
\* delete waited on the content store.
C27_DeleteRemovesExactlyThatItem ==
    [][\A a \in 1..MaxAsyncs :
          DeleteJobDone(a) =>
              LET id == asyncs[a].id
                  k == FindIndex(storeJobs, id)
              IN /\ storeJobs' = Without(storeJobs, id)
                 /\ k # 0 =>
                       /\ storeTotalCount' = storeTotalCount - 1
                       /\ storeCompletedCount' = storeCompletedCount -
                             (IF storeJobs[k].status = "completed" THEN 1 ELSE 0)
                       /\ storeFailedCount' = storeFailedCount -
                             (IF storeJobs[k].status = "error" THEN 1 ELSE 0)]_vars

\* C28: for each caller identity, in every 60-second interval at most 20
\* requests to /api/generate are handed to the handler (the requests beyond
\* the cap being answered with 429)
C28_AtMostCapPerSlidingWindow ==
    \A ip \in IPs : PassedWithin(ip) <= RATE_CAP

\* C29: every answer to a request with cookie MOCK and a non-empty prompt
\* that the rate limiter let through is a success with an image, made
\* without the Whisk library, whether or not the library is loaded
C29_MockAnswersWithoutLibrary ==
    \A r \in responses :
        r.cookie = "MOCK" /\ r.prompt # "" /\ r.status # 429
            => r.success /\ r.image /\ ~r.usedWhisk

\* C30: a generation call that has not returned when its 60 s timeout
\* elapses is failed: no call is still unanswered, its item in processing
\* in the browser, once the timeout has fired
C30_TimedOutCallIsFailed ==
    \A i \in DOMAIN requests :
        requests[i].pc = "whisk" => requests[i].timer # "fired"

\* the timestamp cleanupOldJobs goes by
RetentionDate(j) ==
    IF j.completedAt # NoTime THEN j.completedAt ELSE j.createdAt

OlderThanRetention(j) ==
    /\ j.status \in {"completed", "failed"}
    /\ now - RetentionDate(j) > RetentionDays

AtLeastRetentionOld(j) ==
    /\ j.status \in {"completed", "failed"}
    /\ now - RetentionDate(j) >= RetentionDays

NotOlderThanRetention(j) == ~OlderThanRetention(j)

YoungerThanRetention(j) == ~AtLeastRetentionOld(j)

\* the store after a flush at once, and a store that was not flushed
FlushedAtOnce ==
    /\ disk' = [exists |-> TRUE, jobs |-> jobsCache']
    /\ ~isDirty'
    /\ ~saveTimer'

\* C31 as stated: cleanupOldJobs removes exactly the completed and failed
\* jobs whose completion timestamp (creation timestamp when absent) is more
\* than 7 days old, keeps the other jobs in order, and flushes at once if
\* and only if it removed a job
C31_RemovesExactlyOlderThanSevenDays ==
    [][RetentionCleanup =>
          /\ jobsCache' = SelectSeq(jobsCache, NotOlderThanRetention)
          /\ IF Len(jobsCache') < Len(jobsCache) THEN FlushedAtOnce
             ELSE UNCHANGED <<disk, isDirty, saveTimer>>]_vars

\* C31: cleanupOldJobs removes exactly the completed and failed jobs whose
\* completion timestamp (creation timestamp when absent) is 7 days old or
\* older, keeps every other job in unchanged order, and flushes at once if
\* and only if it removed a job
C31_RemovesExactlySevenDaysOldOrOlder ==
    [][RetentionCleanup =>
          /\ jobsCache' = SelectSeq(jobsCache, YoungerThanRetention)
          /\ IF Len(jobsCache') < Len(jobsCache) THEN FlushedAtOnce
             ELSE UNCHANGED <<disk, isDirty, saveTimer>>]_vars

\* C31, its case: the cleanup has removed the first of two jobs and kept a
\* completed job that is younger, and the file holds the list that is left
C31_OldJobRemovedYoungKept ==
    /\ called = "cleanupOldJobs"
    /\ nextId = 3
    /\ Len(jobsCache) = 1
    /\ jobsCache[1].id = 2
    /\ jobsCache[1].status = "completed"
    /\ disk.jobs = jobsCache
    /\ ~isDirty

\* the entries of the pool that the step removes
Evicted ==
    {i \in DOMAIN whiskInstances :
        HolderOf(whiskInstances', whiskInstances[i].whisk.id) = 0}

\* C32: after every getWhiskInstance call the pool holds at most 5 entries;
\* an entry is evicted only from a full pool, it is the one used least
\* recently, and the entry the call returns (created by it or not) stays
C32_PoolBoundedEvictingLeastRecent ==
    [][\A c \in PoolCookies : PromptStarts(c) =>
          /\ Len(whiskInstances') <= MAX_INSTANCES
          /\ HolderOf(whiskInstances', poolCall'.inst) # 0
          /\ whiskInstances'[HolderOf(whiskInstances', poolCall'.inst)].hash = Hash(c)
          /\ Cardinality(Evicted) <= 1
          /\ \A i \in Evicted :
                /\ Len(whiskInstances) = MAX_INSTANCES
                /\ poolCall'.inst = nextInstance
                /\ \A k \in DOMAIN whiskInstances :
                      whiskInstances[i].lastUsed <= whiskInstances[k].lastUsed]_vars

\* C32, its case: a sixth entry was created in a full pool whose oldest
\* entry had been used again, so that the second entry went
C32_SecondEntryEvicted ==
    /\ nextInstance = MAX_INSTANCES + 2
    /\ Len(whiskInstances) = MAX_INSTANCES
    /\ whiskInstances[1].whisk.id = 1
    /\ whiskInstances[2].whisk.id = 3
    /\ whiskInstances[MAX_INSTANCES].whisk.id = MAX_INSTANCES + 1

\* a failure with a message of a stale project leaves the credential with
\* no project, a prompt that finds no project asks for one, and the project
\* it gets has served no call before
FreshAfterStaleFailure ==
    /\ \A msg \in Messages :
          StaleProject(msg) /\ (GenerateDone(FALSE, msg) \/ ProjectDone(FALSE, msg))
             => \A i \in DOMAIN whiskInstances' :
                   whiskInstances'[i].hash = Hash(poolCall.cookie)
                      => whiskInstances'[i].project = 0
    /\ \A c \in PoolCookies :
          /\ PromptStarts(c)
          /\ \A i \in DOMAIN whiskInstances :
                whiskInstances[i].hash = Hash(c) => whiskInstances[i].project = 0
          => poolCall'.pc = "project"
    /\ \A msg \in Messages :
          ProjectDone(TRUE, msg)
             => /\ poolCall'.pc = "gen"
                /\ \A u \in uses : u.project # poolCall'.project

\* C33 as stated: no cached generation context serves more than 10
\* generation calls before it is recreated, and after a failure that
\* indicates a stale project the next attempt creates a fresh context
C33_ContextServesAtMostTenCalls ==
    /\ [](\A i \in DOMAIN whiskInstances :
             whiskInstances[i].served <= PROJECT_REFRESH_EVERY)
    /\ [][FreshAfterStaleFailure]_vars

\* C33: no cached generation context produces more than 10 images before
\* it is recreated, and after a failure whose message indicates an invalid
\* project, a server error or a connection reset the next attempt for that
\* credential creates a fresh context
C33_ContextMakesAtMostTenImages ==
    /\ [](\A i \in DOMAIN whiskInstances :
             whiskInstances[i].made <= PROJECT_REFRESH_EVERY)
    /\ [][FreshAfterStaleFailure]_vars

\* C33, its case: a project has made its 10 images and the next prompt of
\* the credential is waiting for a new one
C33_RefreshAfterTenImages ==
    /\ poolCall.pc = "project"
    /\ \E i \in DOMAIN whiskInstances :
          /\ whiskInstances[i].project # 0
          /\ whiskInstances[i].made = PROJECT_REFRESH_EVERY

\* C39: two jobs with different credentials never use the same cached
\* Whisk object or project, and the pool key tells apart any two distinct
\* credentials that jobs came with
C39_CredentialsNeverShareAnInstance ==
    /\ \A u \in uses : \A v \in uses :
          u.job # v.job => u.inst # v.inst /\ u.project # v.project
    /\ \A c \in CookiesUsed : \A d \in CookiesUsed :
          c # d => Hash(c) # Hash(d)

\* C34: a POST /api/animate that passed validation is answered once: while
\* neither the timer has fired nor the adapter finished nothing is sent;
\* when the timer fires first the one answer is 504 and the adapter's later
\* end sends nothing; when the adapter ends first the timer is cleared and
\* the one answer is not 504
C34_AnimateAnsweredExactlyOnce ==
    \A i \in DOMAIN animations :
        LET a == animations[i] IN
        a.timer # "none" =>
            /\ Len(a.sent) <= 1
            /\ a.sent = <<>> <=> a.timer = "armed"
            /\ a.timer = "armed" => a.pc # "done"
            /\ a.timer = "fired" => a.sent = <<504>>
            /\ a.timer = "cleared" => a.pc = "done" /\ a.sent # <<504>>

\* C34, its case: the timer fired, 504 was sent, and the adapter has ended
\* since
C34_AdapterEndedAfterTimeout ==
    \E i \in DOMAIN animations :
        /\ animations[i].timer = "fired"
        /\ animations[i].pc = "done"
        /\ animations[i].sent = <<504>>

\* C35: a job is marked failed only after the worker has attempted at least
\* one of its prompts: every failed job that was created with a prompt has a
\* generation call among the calls made
C35_FailedJobHadAnAttempt ==
    \A i \in DOMAIN jobsCache :
        jobsCache[i].status = "failed" /\ jobsCache[i].totalCount > 0
            => \E k \in DOMAIN calls : calls[k][1] = jobsCache[i].id

\* C36: every job in status completed has every one of its prompts in
\* status completed or error
C36_CompletedJobHasNoOpenPrompt ==
    \A i \in DOMAIN jobsCache :
        jobsCache[i].status = "completed" =>
            \A k \in DOMAIN jobsCache[i].prompts :
                jobsCache[i].prompts[k].status \in {"completed", "error"}

\* ------------------------------------------------------- the failure streak

\* the prompt is stored as completed
HasCompleted(jobs, jobId, promptId) ==
    LET idx == JobIndex(jobs, jobId) IN
    /\ idx # 0
    /\ promptId \in DOMAIN jobs[idx].prompts
    /\ jobs[idx].prompts[promptId].status = "completed"

\* worker.js: a prompt that ends completed sets the streak to zero and is
\* followed by the base delay, a prompt that ends in error raises it by one
WorkerStreakKept ==
    \A k \in DOMAIN passes : \A ok \in BOOLEAN : \A doCleanup \in BOOLEAN :
        GenDone(k, ok, doCleanup) =>
            IF HasCompleted(jobsCache', passes[k].job, passes[k].prompt)
            THEN /\ consecutiveErrors' = 0
                 /\ GetBackoffDelay(consecutiveErrors', BASE_DELAY, MAX_BACKOFF) = BASE_DELAY
            ELSE consecutiveErrors' = consecutiveErrors + 1

\* app.js: an answered request sets the streak to zero on success and raises
\* it by one on failure
ClientStreakKept ==
    \A l \in DOMAIN loops :
        /\ FetchDone(l, "ok") => storeConsecutiveErrors' = 0
        /\ \A outcome \in {"fail", "401"} :
              FetchDone(l, outcome) =>
                  storeConsecutiveErrors' = storeConsecutiveErrors + 1

\* app.js: the delay taken once the image of a successful item is stored
ClientDelayAfterSuccess ==
    \A l \in DOMAIN loops :
        SaveDone(l) /\ storeIsRunning /\ ~storeIsPaused =>
            GetBackoffDelay(storeConsecutiveErrors, CLIENT_BASE_DELAY, CLIENT_MAX_BACKOFF)
                = CLIENT_BASE_DELAY

\* C37: in both variants a failed item raises the streak by exactly one and a
\* successful item sets it to zero, so that the delay taken after a
\* successful item is the base delay
C37_DelayAfterSuccessIsBase ==
    [][WorkerStreakKept /\ ClientStreakKept /\ ClientDelayAfterSuccess]_vars

\* the worker's part of C37 alone
WorkerStreakKeptAlways == [][WorkerStreakKept]_vars

\* the counting part of C37 in the browser alone
ClientStreakKeptAlways == [][ClientStreakKept]_vars

\* ------------------------------------------------------ the order of events

\* the places of the log that hold an event of job j
EventsOf(j) ==
    {i \in DOMAIN eventLog : eventLog[i][2] = j}

\* the event of job j that follows place i, 0 when there is none
NextOf(j, i) ==
    IF \E n \in EventsOf(j) : n > i
    THEN CHOOSE n \in EventsOf(j) : n > i /\ \A m \in EventsOf(j) : m > i => n <= m
    ELSE 0

\* the event of job j that precedes place i, 0 when there is none
PrevOf(j, i) ==
    IF \E n \in EventsOf(j) : n < i
    THEN CHOOSE n \in EventsOf(j) : n < i /\ \A m \in EventsOf(j) : m < i => m <= n
    ELSE 0

\* the events that report how a prompt ended
PromptResults ==
    {"prompt-completed", "prompt-error"}

\* the first event of every job is job-started
StartedFirst ==
    \A i \in DOMAIN eventLog :
        PrevOf(eventLog[i][2], i) = 0 => eventLog[i][1] = "job-started"

\* the event of a job after prompt-processing reports how that prompt ended,
\* and every such report directly follows the prompt-processing of its prompt
ResultFollowsProcessing ==
    \A i \in DOMAIN eventLog :
        LET e == eventLog[i]
            n == NextOf(e[2], i)
            b == PrevOf(e[2], i)
        IN /\ e[1] = "prompt-processing" /\ n # 0 =>
                 /\ eventLog[n][1] \in PromptResults
                 /\ eventLog[n][3] = e[3]
           /\ e[1] \in PromptResults =>
                 /\ b # 0
                 /\ eventLog[b][1] = "prompt-processing"
                 /\ eventLog[b][3] = e[3]

\* job-completed is the last event of its job
CompletedLast ==
    \A i \in DOMAIN eventLog :
        eventLog[i][1] = "job-completed" => NextOf(eventLog[i][2], i) = 0

\* C38: of the events the worker broadcasts for a job, job-started is the
\* first, every prompt-processing is followed by exactly one
\* prompt-completed or prompt-error of the same prompt before any event of
\* the next prompt, and job-completed comes at most once, after all prompt
\* events of the job
C38_EventsInOrder ==
    /\ StartedFirst
    /\ ResultFollowsProcessing
    /\ CompletedLast

\* --------------------------------------------------- the write-back invariant

\* the job list the primary snapshot file holds
PrimaryList ==
    IF Parsable(disk, diskTorn) THEN disk.jobs ELSE <<>>

\* C40: whenever the dirty flag is false the primary snapshot file holds
\* exactly the in-memory job list, so that every change of the list made by
\* createJob, updateJob, updatePrompt, cancelJob, cleanupOldJobs or the
\* startup recovery is either flushed or leaves the dirty flag set
C40_CleanCacheIsOnDisk ==
    ~isDirty => PrimaryList = jobsCache

====
